---- MODULE Spec2Model ----
(***************************************************************************)
(* A model of SchemaFormService (json-schema-form): the compiler that      *)
(* turns a JSON schema into a tree of field / group / array configs, the   *)
(* conditional maintenance run by value-change subscriptions, the array    *)
(* lifecycle and the two-phase patch.  JS objects are heap cells addressed *)
(* by integers, so aliasing (the spread copy of a parent group, the        *)
(* `required` array shared with the schema) is kept as it is in the code.  *)
(***************************************************************************)
EXTENDS Integers, Sequences, FiniteSets, TLC

(***************************************************************************)
(* Bounds of the model.                                                    *)
(***************************************************************************)
MaxSteps == 4

MaxItems == 3

\* the nested $ref resolutions one compile may hold on the call stack before the
\* stack is exhausted (RangeError: Maximum call stack size exceeded)
MaxCallDepth == 3

\* the getSchema calls of a session
MaxFetches == 5

(***************************************************************************)
(* JSON values.  Every value is a record of the same shape, so that the    *)
(* strict equality of the code (===) is record equality on scalars.        *)
(***************************************************************************)
Undef == [t |-> "undefined", s |-> "", kv |-> <<>>]

Null == [t |-> "null", s |-> "", kv |-> <<>>]

Str(x) == [t |-> "string", s |-> x, kv |-> <<>>]

Num(i) == [t |-> "number", s |-> ToString(i), kv |-> <<>>]

Bool(b) == [t |-> "boolean", s |-> IF b THEN "true" ELSE "false", kv |-> <<>>]

\* an object literal: pairs is a sequence of [k |-> key, v |-> value], in key order
Obj(pairs) == [t |-> "object", s |-> "", kv |-> pairs]

\* an array literal: elems is a sequence of values
Arr(elems) == [t |-> "array", s |-> "", kv |-> [i \in 1..Len(elems) |-> [k |-> "", v |-> elems[i]]]]

KV(key, val) == [k |-> key, v |-> val]

IsObjectType(v) == v.t \in {"object", "array"}

\* JS truthiness of a value
Truthy(v) ==
    CASE v.t \in {"undefined", "null"} -> FALSE
      [] v.t = "string" -> v.s # ""
      [] v.t = "number" -> v.s # "0"
      [] v.t = "boolean" -> v.s = "true"
      [] OTHER -> TRUE

\* a === b for a scalar a or b (two object literals are never the same reference)
StrictEq(a, b) == ~IsObjectType(a) /\ ~IsObjectType(b) /\ a = b

\* Object.keys(value) of an object value
ObjectKeys(v) == IF v.t = "object" THEN [i \in 1..Len(v.kv) |-> v.kv[i].k] ELSE <<>>

\* value[key]
Get(v, key) ==
    IF v.t = "object" /\ \E i \in 1..Len(v.kv) : v.kv[i].k = key
    THEN v.kv[CHOOSE i \in 1..Len(v.kv) : v.kv[i].k = key].v
    ELSE Undef

\* arrayValue[i], i counted from 0
At(v, i) == IF v.t = "array" /\ i + 1 \in 1..Len(v.kv) THEN v.kv[i + 1].v ELSE Undef

Range(seq) == {seq[i] : i \in 1..Len(seq)}

RECURSIVE SelectSeq2(_, _)
\* the elements of seq that are not in the set drop, in order
SelectSeq2(seq, drop) ==
    IF seq = <<>> THEN <<>>
    ELSE IF Head(seq) \in drop THEN SelectSeq2(Tail(seq), drop)
         ELSE <<Head(seq)>> \o SelectSeq2(Tail(seq), drop)

(***************************************************************************)
(* String helpers of the code.                                             *)
(***************************************************************************)
\* k.endsWith(seg)
EndsWith(k, seg) == Len(k) >= Len(seg) /\ SubSeq(k, Len(k) - Len(seg) + 1, Len(k)) = seg

\* k.startsWith(seg)
StartsWith(k, seg) == Len(k) >= Len(seg) /\ SubSeq(k, 1, Len(seg)) = seg

\* k.includes(seg)
Includes(k, seg) == \E i \in 1..(Len(k) - Len(seg) + 1) : SubSeq(k, i, i + Len(seg) - 1) = seg

\* `00${index}`.slice(-3), index given as the text the template prints
Pad3(index) == LET str == "00" \o index IN SubSeq(str, Len(str) - 2, Len(str))

anyOfKeySegment == "anyOf-option"

oneOfKeySegment == "oneOf-option"

(***************************************************************************)
(* The input schemas.  A schema document is a graph of JS objects; every   *)
(* sub-schema has a name here and is referred to by that name.  `required` *)
(* arrays are mutable JS arrays: a schema holds the number of the heap     *)
(* cell (in req) of its array, 0 when the keyword is absent.               *)
(***************************************************************************)
SD ==
    [type |-> "", ref |-> "", hasProps |-> FALSE, props |-> <<>>, items |-> "",
     required |-> 0, hasEnum |-> FALSE, enum |-> <<>>, const |-> Undef,
     default |-> Undef, allOf |-> <<>>, anyOf |-> <<>>, oneOf |-> <<>>,
     hasIf |-> FALSE, ifProps |-> <<>>, then |-> "", else |-> "",
     minItems |-> -1, maxItems |-> -1, additionalProperties |-> FALSE,
     format |-> "", defs |-> <<>>, definitions |-> <<>>, id |-> ""]

P(key, schema) == [k |-> key, s |-> schema]

IfConst(key, c) == [k |-> key, c |-> c]

ObjectWith(props) == [SD EXCEPT !.type = "object", !.hasProps = TRUE, !.props = props]

PropsOnly(props) == [SD EXCEPT !.hasProps = TRUE, !.props = props]

EnumOf(vals) == [SD EXCEPT !.type = "string", !.hasEnum = TRUE, !.enum = vals]

IfThen(key, c, thenSchema) ==
    [SD EXCEPT !.hasIf = TRUE, !.ifProps = <<IfConst(key, c)>>, !.then = thenSchema]

\* { $ref: pointer }
RefTo(pointer) == [SD EXCEPT !.ref = pointer]

\* the initial contents of the schemas' `required` arrays
ReqInit ==
    << <<"cardNumber", "cvv">>,
       <<"accountNumber">>,
       <<"memo", "hint">>,
       <<"kind">>,
       <<"sub">> >>

Schemas ==
    [ string |-> [SD EXCEPT !.type = "string"],
      number |-> [SD EXCEPT !.type = "number"],
      boolean |-> [SD EXCEPT !.type = "boolean"],
      \* handleAnyOf / handleOneOf: { type: 'object', title, properties: {} }
      wrapperGroupSchema |-> ObjectWith(<<>>),
      \* mocks/conditional-schema.mock.ts: ifThenElseSchema
      ifThenElseSchema |->
          [ObjectWith(<<P("country", "ite_country")>>) EXCEPT
              !.allOf = <<"ite_allOf_1", "ite_allOf_2">>],
      ite_country |-> EnumOf(<<Str("USA"), Str("Canada"), Str("Other")>>),
      ite_allOf_1 |-> IfThen("country", Str("USA"), "ite_then_1"),
      ite_then_1 |-> PropsOnly(<<P("state", "ite_state")>>),
      ite_state |-> EnumOf(<<Str("CA"), Str("NY"), Str("TX")>>),
      ite_allOf_2 |-> IfThen("country", Str("Canada"), "ite_then_2"),
      ite_then_2 |-> PropsOnly(<<P("province", "ite_province")>>),
      ite_province |-> EnumOf(<<Str("ON"), Str("QC"), Str("BC")>>),
      \* mocks/conditional-schema.mock.ts: oneOfSchema
      oneOfSchema |-> ObjectWith(<<P("paymentMethod", "oo_paymentMethod")>>),
      oo_paymentMethod |-> [SD EXCEPT !.oneOf = <<"oo_creditCard", "oo_bankTransfer">>],
      oo_creditCard |->
          [ObjectWith(<<P("cardNumber", "string"), P("cvv", "string"),
                        P("expiryDate", "string")>>) EXCEPT !.required = 1],
      oo_bankTransfer |->
          [ObjectWith(<<P("accountNumber", "string"), P("routingNumber", "string")>>)
              EXCEPT !.required = 2],
      \* mocks/conditional-schema.mock.ts: anyOfSchema
      anyOfSchema |-> ObjectWith(<<P("features", "ao_features")>>),
      ao_features |-> [SD EXCEPT !.anyOf = <<"ao_featureA", "ao_featureB">>],
      ao_featureA |-> ObjectWith(<<P("optionA", "string")>>),
      ao_featureB |-> ObjectWith(<<P("optionB", "string")>>),
      \* mocks/conditional-schema.mock.ts: arrayConditionalSchema
      arrayConditionalSchema |-> ObjectWith(<<P("items", "ac_items")>>),
      ac_items |-> [SD EXCEPT !.type = "array", !.items = "ac_item"],
      ac_item |-> [ObjectWith(<<P("type", "ac_type")>>) EXCEPT !.allOf = <<"ac_allOf_1">>],
      ac_type |-> EnumOf(<<Str("typeA"), Str("typeB")>>),
      ac_allOf_1 |-> IfThen("type", Str("typeA"), "ac_then_1"),
      ac_then_1 |-> PropsOnly(<<P("optionA", "string")>>),
      \* arrayConditionalSchema with `minItems: 2` on the array
      arrayPairSchema |-> ObjectWith(<<P("items", "ap_items")>>),
      ap_items |-> [SD EXCEPT !.type = "array", !.items = "ac_item", !.minItems = 2],
      \* mocks/conditional-schema.mock.ts: nestedConditionalSchema
      nestedConditionalSchema |->
          [ObjectWith(<<P("enableFeature", "boolean")>>) EXCEPT !.allOf = <<"nc_allOf_1">>],
      nc_allOf_1 |-> IfThen("enableFeature", Bool(TRUE), "nc_then_1"),
      nc_then_1 |-> PropsOnly(<<P("settings", "nc_settings")>>),
      nc_settings |-> [ObjectWith(<<P("mode", "nc_mode")>>) EXCEPT !.allOf = <<"nc_allOf_2">>],
      nc_mode |-> EnumOf(<<Str("simple"), Str("advanced")>>),
      nc_allOf_2 |-> IfThen("mode", Str("advanced"), "nc_then_2"),
      nc_then_2 |-> PropsOnly(<<P("advancedOption", "string")>>),
      \* mocks/simple-schema.mock.ts: arraySchema
      arraySchema |-> ObjectWith(<<P("tags", "ar_tags")>>),
      ar_tags |-> [SD EXCEPT !.type = "array", !.items = "string", !.minItems = 1,
                             !.maxItems = 5],
      \* two branches of one trigger that declare the same key `common`
      sharedKeySchema |->
          [ObjectWith(<<P("kind", "sk_kind")>>) EXCEPT !.allOf = <<"sk_allOf_1", "sk_allOf_2">>],
      sk_kind |-> EnumOf(<<Str("A"), Str("B"), Str("Other")>>),
      sk_allOf_1 |-> IfThen("kind", Str("A"), "sk_then_1"),
      sk_then_1 |-> PropsOnly(<<P("a1", "string"), P("common", "string")>>),
      sk_allOf_2 |-> IfThen("kind", Str("B"), "sk_then_2"),
      sk_then_2 |-> PropsOnly(<<P("b1", "string"), P("common", "string")>>),
      \* a then-branch that re-declares an existing property (`note`) and one
      \* that makes an existing property (`memo`) required
      refineSchema |->
          [ObjectWith(<<P("mode", "rf_mode"), P("note", "string"), P("memo", "string")>>)
              EXCEPT !.allOf = <<"rf_allOf_1", "rf_allOf_2">>],
      rf_mode |-> EnumOf(<<Str("basic"), Str("full"), Str("strict")>>),
      rf_allOf_1 |-> IfThen("mode", Str("full"), "rf_then_1"),
      rf_then_1 |-> PropsOnly(<<P("note", "string"), P("extra", "string")>>),
      rf_allOf_2 |-> IfThen("mode", Str("strict"), "rf_then_2"),
      rf_then_2 |-> [PropsOnly(<<P("hint", "string")>>) EXCEPT !.required = 3],
      \* unnamed/part_009: schemaWithRefs
      schemaWithRefs |->
          [ObjectWith(<<P("primaryContact", "swr_ref_person")>>) EXCEPT
              !.defs = <<P("address", "swr_address"), P("person", "swr_person")>>],
      swr_address |->
          [ObjectWith(<<P("street", "string"), P("city", "string")>>) EXCEPT !.id = "address"],
      swr_person |->
          [ObjectWith(<<P("name", "string"), P("address", "swr_ref_address")>>)
              EXCEPT !.id = "person"],
      swr_ref_person |-> RefTo("#/$defs/person"),
      swr_ref_address |-> RefTo("#/$defs/address"),
      \* a document whose definitions are declared under `$defs` with an $id of
      \* their own (tagged), under `definitions` (legacy) and below the root
      \* (deep), with a pointer to no definition (missing) and an `if` on a
      \* field that does not exist
      pointerSchema |->
          [ObjectWith(<<P("plain", "string"), P("tagged", "ps_ref_tagged"),
                        P("legacy", "ps_ref_legacy"), P("inner", "ps_inner"),
                        P("missing", "ps_ref_missing")>>) EXCEPT
              !.defs = <<P("tagged", "ps_tagged")>>,
              !.definitions = <<P("legacy", "ps_legacy")>>,
              !.allOf = <<"ps_ref_missing", "ps_allOf_2">>],
      ps_tagged |-> [SD EXCEPT !.type = "number", !.id = "urn:tagged"],
      ps_legacy |-> [SD EXCEPT !.type = "number"],
      ps_deep |-> [SD EXCEPT !.type = "number"],
      ps_inner |->
          [ObjectWith(<<P("deep", "ps_ref_deep")>>) EXCEPT !.defs = <<P("deep", "ps_deep")>>],
      ps_ref_tagged |-> RefTo("#/$defs/tagged"),
      ps_ref_legacy |-> RefTo("#/definitions/legacy"),
      ps_ref_deep |-> RefTo("#/$defs/deep"),
      ps_ref_missing |-> RefTo("#/$defs/missing"),
      ps_allOf_2 |-> IfThen("ghost", Str("x"), "ps_then"),
      ps_then |-> PropsOnly(<<P("haunted", "string")>>),
      \* a definition that refers to itself: a tree of nodes
      selfRefSchema |->
          [ObjectWith(<<P("node", "sr_ref_node")>>) EXCEPT !.defs = <<P("node", "sr_node")>>],
      sr_node |-> ObjectWith(<<P("label", "string"), P("child", "sr_ref_node")>>),
      sr_ref_node |-> RefTo("#/$defs/node"),
      \* a oneOf with an option whose $ref names no definition
      brokenOptionSchema |-> ObjectWith(<<P("choice", "bo_choice")>>),
      bo_choice |-> [SD EXCEPT !.oneOf = <<"ps_ref_missing", "ro_a">>],
      \* oneOf at the root of the document
      rootOneOfSchema |-> [SD EXCEPT !.type = "object", !.oneOf = <<"ro_a", "ro_b">>],
      ro_a |-> ObjectWith(<<P("a1", "string")>>),
      ro_b |-> ObjectWith(<<P("b1", "string")>>),
      \* oneOf without a property key, inside allOf
      keylessOneOfSchema |->
          [ObjectWith(<<P("name", "string")>>) EXCEPT !.allOf = <<"ko_allOf_1">>],
      ko_allOf_1 |-> [SD EXCEPT !.oneOf = <<"ro_a", "ro_b">>],
      \* if / then / else
      ifElseSchema |->
          [ObjectWith(<<P("country", "ite_country")>>) EXCEPT
              !.hasIf = TRUE, !.ifProps = <<IfConst("country", Str("USA"))>>,
              !.then = "ite_then_1", !.else = "ie_else"],
      ie_else |-> PropsOnly(<<P("postcode", "string")>>),
      \* additionalProperties on the root and on a nested group
      openSchema |->
          [ObjectWith(<<P("name", "string"), P("meta", "os_meta")>>) EXCEPT
              !.additionalProperties = TRUE],
      os_meta |-> [ObjectWith(<<P("label", "string")>>) EXCEPT !.additionalProperties = TRUE],
      \* an array that may hold one or two items
      cappedSchema |-> ObjectWith(<<P("list", "cp_list")>>),
      cp_list |-> [SD EXCEPT !.type = "array", !.items = "string", !.minItems = 1,
                             !.maxItems = 2],
      \* constants, one of them falsy, and an enum of five options
      constSchema |->
          ObjectWith(<<P("version", "cs_version"), P("level", "cs_level"),
                       P("size", "cs_size")>>),
      cs_version |-> [SD EXCEPT !.type = "string", !.const = Str("v1")],
      cs_level |-> [SD EXCEPT !.type = "number", !.const = Num(0)],
      cs_size |-> EnumOf(<<Str("xs"), Str("s"), Str("m"), Str("l"), Str("xl")>>),
      \* a document whose $defs declares `person`, as schemaWithRefs does
      petSchema |->
          [ObjectWith(<<P("owner", "swr_ref_person")>>) EXCEPT
              !.defs = <<P("person", "pet_person")>>],
      pet_person |-> ObjectWith(<<P("nickname", "string")>>),
      \* an array declared by a branch of a keyless oneOf
      basketSchema |->
          [ObjectWith(<<P("name", "string")>>) EXCEPT !.allOf = <<"bk_allOf_1">>],
      bk_allOf_1 |-> [SD EXCEPT !.oneOf = <<"bk_option_1", "ro_b">>],
      bk_option_1 |-> PropsOnly(<<P("entries", "bk_entries")>>),
      bk_entries |-> [SD EXCEPT !.type = "array", !.items = "string"],
      \* a trigger that a branch of another trigger of the same group declares
      \* (the outer trigger is declared by an allOf sub-schema of the schema
      \* that holds the `if`)
      chainSchema |->
          [SD EXCEPT
              !.type = "object", !.allOf = <<"ch_base">>, !.required = 4,
              !.hasIf = TRUE, !.ifProps = <<IfConst("kind", Str("typeA"))>>,
              !.then = "ch_then_1"],
      ch_then_1 |->
          [PropsOnly(<<P("sub", "ac_type")>>) EXCEPT
              !.required = 5, !.hasIf = TRUE, !.ifProps = <<IfConst("sub", Str("typeB"))>>,
              !.then = "ch_then_2"],
      ch_base |-> PropsOnly(<<P("kind", "ac_type")>>),
      \* the inner branch has an `if` on the outer trigger
      ch_then_2 |->
          [PropsOnly(<<P("leaf", "string")>>) EXCEPT
              !.hasIf = TRUE, !.ifProps = <<IfConst("kind", Str("typeB"))>>,
              !.then = "ch_then_3"],
      ch_then_3 |-> PropsOnly(<<P("extra", "string")>>)
    ]

\* the documents handed to schemaToFieldConfig
RootSchemas ==
    {"ifThenElseSchema", "oneOfSchema", "anyOfSchema", "arrayConditionalSchema",
     "arrayPairSchema", "nestedConditionalSchema", "arraySchema", "sharedKeySchema",
     "refineSchema", "schemaWithRefs", "pointerSchema", "selfRefSchema",
     "brokenOptionSchema", "rootOneOfSchema", "keylessOneOfSchema", "ifElseSchema",
     "openSchema", "cappedSchema", "constSchema", "petSchema",
     "basketSchema", "chainSchema"}

\* the values handed to patchValue, by document: each is shaped according to
\* the document's schema
PatchValues ==
    [ ifThenElseSchema |->
          {Obj(<<KV("country", Str("USA")), KV("state", Str("CA"))>>),
           Obj(<<KV("country", Str("Canada")), KV("province", Str("ON"))>>),
           Obj(<<KV("country", Str("Other"))>>),
           \* `state` is not required
           Obj(<<KV("country", Str("USA"))>>)},
      oneOfSchema |->
          {Obj(<<KV("paymentMethod",
                    Obj(<<KV("cardNumber", Str("4111")), KV("cvv", Str("123")),
                          KV("expiryDate", Str("12/30"))>>))>>),
           \* `expiryDate` is not required
           Obj(<<KV("paymentMethod",
                    Obj(<<KV("cardNumber", Str("4111")), KV("cvv", Str("123"))>>))>>),
           Obj(<<KV("paymentMethod",
                    Obj(<<KV("accountNumber", Str("1234")),
                          KV("routingNumber", Str("5678"))>>))>>)},
      anyOfSchema |->
          {Obj(<<KV("features", Obj(<<KV("optionA", Str("x"))>>))>>),
           Obj(<<KV("features", Obj(<<KV("optionB", Str("y"))>>))>>),
           Obj(<<KV("features", Obj(<<KV("optionA", Str("x")), KV("optionB", Str("y"))>>))>>)},
      arrayConditionalSchema |->
          {Obj(<<KV("items", Arr(<<Obj(<<KV("type", Str("typeA")),
                                         KV("optionA", Str("x"))>>)>>))>>),
           Obj(<<KV("items", Arr(<<Obj(<<KV("type", Str("typeB"))>>),
                                   Obj(<<KV("type", Str("typeA")),
                                         KV("optionA", Str("x"))>>)>>))>>)},
      arrayPairSchema |->
          {Obj(<<KV("items", Arr(<<Obj(<<KV("type", Str("typeB"))>>),
                                   Obj(<<KV("type", Str("typeA")),
                                         KV("optionA", Str("x"))>>)>>))>>)},
      nestedConditionalSchema |->
          {Obj(<<KV("enableFeature", Bool(TRUE)),
                 KV("settings", Obj(<<KV("mode", Str("advanced")),
                                      KV("advancedOption", Str("z"))>>))>>),
           Obj(<<KV("enableFeature", Bool(FALSE))>>)},
      arraySchema |->
          {Obj(<<KV("tags", Arr(<<Str("a")>>))>>),
           Obj(<<KV("tags", Arr(<<Str("a"), Str("b")>>))>>)},
      sharedKeySchema |->
          {Obj(<<KV("kind", Str("A")), KV("a1", Str("x")), KV("common", Str("c"))>>),
           Obj(<<KV("kind", Str("B")), KV("b1", Str("y")), KV("common", Str("c"))>>)},
      refineSchema |->
          {Obj(<<KV("mode", Str("full")), KV("note", Str("n")), KV("memo", Str("m")),
                 KV("extra", Str("e"))>>),
           Obj(<<KV("mode", Str("strict")), KV("note", Str("n")), KV("memo", Str("m")),
                 KV("hint", Str("h"))>>)},
      schemaWithRefs |->
          {Obj(<<KV("primaryContact",
                    Obj(<<KV("name", Str("n")),
                          KV("address", Obj(<<KV("street", Str("s")),
                                              KV("city", Str("c"))>>))>>))>>)},
      pointerSchema |->
          {Obj(<<KV("plain", Str("p")), KV("tagged", Num(1)), KV("legacy", Num(2)),
                 KV("inner", Obj(<<KV("deep", Num(3))>>))>>)},
      selfRefSchema |-> {},
      brokenOptionSchema |-> {},
      rootOneOfSchema |->
          {Obj(<<KV("a1", Str("x"))>>), Obj(<<KV("b1", Str("y"))>>)},
      keylessOneOfSchema |->
          {Obj(<<KV("name", Str("n")), KV("a1", Str("x"))>>)},
      ifElseSchema |->
          {Obj(<<KV("country", Str("USA")), KV("state", Str("CA"))>>),
           Obj(<<KV("country", Str("Canada")), KV("postcode", Str("z"))>>)},
      openSchema |->
          {\* extras at the root: a string and a number
           Obj(<<KV("name", Str("n")), KV("color", Str("red")), KV("count", Num(7))>>),
           \* extras in the nested group: scalars, null, a reserved key, an object, an array
           Obj(<<KV("name", Str("n")),
                 KV("meta", Obj(<<KV("label", Str("l")), KV("color", Str("red")),
                                  KV("count", Num(7)), KV("blank", Null),
                                  KV("_tmp", Str("t")),
                                  KV("nested", Obj(<<KV("a", Str("b"))>>)),
                                  KV("list", Arr(<<Str("i")>>))>>))>>)},
      cappedSchema |->
          {Obj(<<KV("list", Arr(<<Str("a"), Str("b")>>))>>),
           Obj(<<KV("list", Arr(<<Str("a"), Str("b"), Str("c")>>))>>)},
      constSchema |-> {},
      petSchema |-> {},
      basketSchema |->
          {Obj(<<KV("name", Str("n")), KV("entries", Arr(<<Str("a"), Str("b")>>))>>)},
      chainSchema |->
          {Obj(<<KV("kind", Str("typeA")), KV("sub", Str("typeB")), KV("leaf", Str("l"))>>)} ]

\* values handed to patchValue that are no object: null, a string, a number
NonObjectValues == {Null, Str("x"), Num(7)}

(***************************************************************************)
(* The heap.  h is the whole mutable state of one service instance:        *)
(*   obj     the field / group / array config objects, by number;         *)
(*   fields  by body number, a group's `fields` object (insertion order)   *)
(*           or an array's `items`;                                        *)
(*   ctl     by body number, the controls registered in the group's        *)
(*           FormGroup (groupRef) or the array's FormArray (arrayRef);     *)
(*   cs      by number, a conditionalSchemas array;                        *)
(*   req     by number, a `required` / requiredFields array;               *)
(*   schemas the schema objects the service was handed, by name;           *)
(*   subs    the subscriptions Map, uniqueKey -> subscription;             *)
(*   act     the subscriptions not yet unsubscribed (a subscription is     *)
(*           named by the node whose control it watches);                  *)
(*   err     an exception is propagating; rnd the random source;           *)
(*   gone    (history) the uniqueKeys of the nodes removed so far.         *)
(***************************************************************************)
Entry(key, n) == [k |-> key, n |-> n]

Keys(fs) == [i \in 1..Len(fs) |-> fs[i].k]

HasKey(fs, key) == \E i \in 1..Len(fs) : fs[i].k = key

\* fs[key], 0 when absent
Lookup(fs, key) ==
    IF HasKey(fs, key) THEN fs[CHOOSE i \in 1..Len(fs) : fs[i].k = key].n ELSE 0

\* fs[key] = n: an existing key keeps its place
FieldsSet(fs, key, n) ==
    IF HasKey(fs, key)
    THEN [i \in 1..Len(fs) |-> IF fs[i].k = key THEN Entry(key, n) ELSE fs[i]]
    ELSE Append(fs, Entry(key, n))

\* delete fs[key]
FieldsDel(fs, key) == SelectSeq(fs, LAMBDA e : e.k # key)

\* FormGroup.addControl -> registerControl: a name already registered keeps its control
CtlAdd(cs, key, n) == IF HasKey(cs, key) THEN cs ELSE Append(cs, Entry(key, n))

\* items.splice(index, 1), index counted from 0
SpliceOut(seq, index) == [i \in 1..(Len(seq) - 1) |-> IF i <= index THEN seq[i] ELSE seq[i + 1]]

Desc(tv, rtv, schema) == [tv |-> tv, rtv |-> rtv, schema |-> schema, added |-> <<>>]

NewNode(type, key, uniqueKey, parent) ==
    [type |-> type, key |-> key, uniqueKey |-> uniqueKey, parent |-> parent,
     body |-> 0, cs |-> 0, req |-> 0, required |-> FALSE, value |-> Null,
     schema |-> "", addl |-> FALSE, removeable |-> FALSE,
     \* validations.minItems, validations.maxItems of an array (-1: undefined)
     minItems |-> -1, maxItems |-> -1,
     \* not fields of the code: this object is a spread copy of a group; the
     \* uniqueKey was that of a removed node when this node was created
     copy |-> FALSE, reuses |-> FALSE]

\* (history) a node being created learns whether its uniqueKey was used before
Born(h, node) == [node EXCEPT !.reuses = node.uniqueKey \in h.gone]

IsLeafType(type) == type \notin {"group", "array"}

\* this.subscriptions.get(uniqueKey): 0 when there is none
SubGet(h, uniqueKey) == Lookup(h.subs, uniqueKey)

\* subscription.unsubscribe(); this.subscriptions.delete(uniqueKey)
Unsubscribe(h, uniqueKey) ==
    LET sub == SubGet(h, uniqueKey)
    IN IF sub = 0 THEN h
       ELSE [h EXCEPT !.act = @ \ {sub}, !.subs = FieldsDel(@, uniqueKey)]

\* the urls getSchema is called with
Urls == {"https://example.com/schema.json", "https://example.com/component.json"}

\* how a fetch settles: an ok response, a response that is not ok, a rejection
FetchOutcomes == {"ok", "status", "rejected"}

\* the outcomes of Math.random() a session may see
RandSeeds == {1, 2}

\* Math.random().toString(36).substring(2)
RandomKey(h) == "r" \o ToString(h.rnd.seed) \o ToString(h.rnd.n)

(***************************************************************************)
(* The compiler.  Every operation takes the heap and returns the heap      *)
(* after the call; once h.err is set (an exception was thrown) every       *)
(* operation returns at once, as the call stack unwinds.                   *)
(***************************************************************************)
\* this.<method>(...): a call of one method of the service by another
RECURSIVE Call(_, _, _)
RECURSIVE FollowRef(_, _, _)
RECURSIVE processPropertiesLoop(_, _, _, _)
RECURSIVE processAllOfLoop(_, _, _, _)
RECURSIVE handleAnyOfLoop(_, _, _, _, _)
RECURSIVE addArrayItems(_, _, _)

\* resolveRef: the schema the defsMap holds for the key, "" (null) when none
resolveRef(h, ref) ==
    LET defsPath == "#/$defs/"
        key == IF StartsWith(ref, defsPath)
               THEN SubSeq(ref, Len(defsPath) + 1, Len(ref))
               ELSE ref
    IN IF HasKey(h.defs, key) THEN Lookup(h.defs, key) ELSE ""

\* the number keywords of a schema; a keyword is the empty set when the
\* schema does not have it and the set of its one value when it does
NumberSchema(type, minimum, maximum, exclusiveMinimum, exclusiveMaximum) ==
    [type |-> type, minimum |-> minimum, maximum |-> maximum,
     exclusiveMinimum |-> exclusiveMinimum, exclusiveMaximum |-> exclusiveMaximum]

\* buildValidators, the number validations: the bounds of the Validators.max
\* and Validators.min it pushes
numberValidators(schema) ==
    [max |-> schema.maximum \cup {m - 1 : m \in schema.exclusiveMaximum},
     min |-> schema.minimum \cup {n + 1 : n \in schema.exclusiveMinimum}]

\* a control value passes Validators.min(b) when it is at least b and
\* Validators.max(b) when it is at most b; v counts halves, so that 3 is 1.5
Valid(validators, v) ==
    /\ \A b \in validators.min : v >= 2 * b
    /\ \A b \in validators.max : v <= 2 * b

\* buildValidators: the validations of a field; a field is required when the
\* parent group's requiredFields holds its key at the time the field is built
buildValidators(h, schema, parent, fieldKey) ==
    LET p == h.obj[parent]
    IN [required |->
            /\ p.type = "group"
            /\ fieldKey # ""
            /\ p.req # 0
            /\ fieldKey \in Range(h.req[p.req])]

\* the field type addField picks for a schema
FieldTypeOf(s) ==
    IF s.hasEnum
    THEN IF s.format = "radio" THEN "radio"
         ELSE IF s.format = "select" THEN "select"
         ELSE IF Len(s.enum) >= 5 THEN "select" ELSE "radio"
    ELSE IF Truthy(s.const) THEN "hidden"
    ELSE IF s.type = "boolean"
         THEN (IF s.format = "toggle" THEN "toggle" ELSE "checkbox")
    ELSE IF s.type \in {"number", "integer"} THEN "number"
    ELSE IF s.format = "textarea" THEN "textarea" ELSE "text"

\* parent.fields[key] = node, and the control registered in groupRef; or
\* parent.items.push(node) and arrayRef.push(control)
AttachToParent(h, parent, key, id) ==
    LET p == h.obj[parent]
    IN IF p.type = "group"
       THEN [h EXCEPT !.fields[p.body] = FieldsSet(@, key, id),
                      !.ctl[p.body] = CtlAdd(@, key, id)]
       ELSE IF p.type = "array"
       THEN [h EXCEPT !.fields[p.body] = Append(@, Entry(key, id)),
                      !.ctl[p.body] = Append(@, Entry(key, id))]
       ELSE h

\* addField: a new leaf config with its control and its valueChanges subscription
addField(h, schema, parent, key, index, removeable) ==
    IF h.err THEN h
    ELSE
    LET s == h.schemas[schema]
        p == h.obj[parent]
        validations == buildValidators(h, schema, parent, key)
        defaultValue == IF s.default.t # "undefined" THEN s.default
                        ELSE IF Truthy(s.const) THEN s.const ELSE Null
        uniqueKey == p.uniqueKey
                     \o (IF p.type # "array" /\ index # "" THEN "_" \o Pad3(index) ELSE "")
                     \o "_" \o key
        id == Len(h.obj) + 1
        node == [NewNode(FieldTypeOf(s), key, uniqueKey, parent) EXCEPT
                    !.cs = Len(h.cs) + 1, !.required = validations.required,
                    !.value = defaultValue, !.schema = schema,
                    !.removeable = removeable]
        h1 == [h EXCEPT !.obj = Append(@, Born(h, node)), !.cs = Append(@, <<>>),
                        !.subs = FieldsSet(@, uniqueKey, id),
                        !.act = @ \cup {id}]
    IN AttachToParent(h1, parent, key, id)

\* addAddProperty: the "add property" field of a group with additionalProperties
addAddProperty(h, parent) ==
    IF h.err THEN h
    ELSE
    LET p == h.obj[parent]
        id == Len(h.obj) + 1
        node == [NewNode("add-property", "_add_property",
                         p.uniqueKey \o "_999_addProperty", parent) EXCEPT
                    !.cs = Len(h.cs) + 1, !.value = Str("")]
    IN [h EXCEPT !.obj = Append(@, Born(h, node)), !.cs = Append(@, <<>>),
                 !.fields[p.body] = FieldsSet(@, "_add_property", id)]

\* addGroup: a new group config, attached to the parent, then its schema compiled
addGroup(h, schema, parent, key, index) ==
    IF h.err THEN h
    ELSE
    LET s == h.schemas[schema]
        p == h.obj[parent]
        uniqueKey == p.uniqueKey
                     \o (IF index # "" THEN "_" \o Pad3(index) ELSE "")
                     \o "_" \o key
        id == Len(h.obj) + 1
        node == [NewNode("group", key, uniqueKey, parent) EXCEPT
                    !.body = Len(h.fields) + 1, !.cs = Len(h.cs) + 1,
                    \* fieldGroup.requiredFields = schema.required: the same array
                    !.req = IF s.required # 0 /\ Len(h.req[s.required]) > 0
                            THEN s.required ELSE 0,
                    !.schema = schema]
        h1 == [h EXCEPT !.obj = Append(@, Born(h, node)), !.cs = Append(@, <<>>),
                        !.fields = Append(@, <<>>), !.ctl = Append(@, <<>>)]
        h2 == AttachToParent(h1, parent, key, id)
        h3 == Call("processSchema", h2, <<schema, id, "">>)
    IN IF h3.err \/ ~s.additionalProperties THEN h3
       ELSE Call("addAddProperty", [h3 EXCEPT !.obj[id].addl = TRUE], <<id>>)

\* fieldArray.canAddItem(): recomputed from items.length on every call
canAddItem(h, array) ==
    IF h.obj[array].maxItems # -1
    THEN Len(h.fields[h.obj[array].body]) < h.obj[array].maxItems
    ELSE TRUE

\* a canRemoveItem() that answers without looking at the items
canRemoveItemCached(h, array) == TRUE

\* fieldArray.canRemoveItem()
canRemoveItem(h, array) ==
    IF h.obj[array].minItems # -1
    THEN Len(h.fields[h.obj[array].body]) > h.obj[array].minItems
    ELSE TRUE

\* addArray: a new array config, attached to the parent, pre-populated to minItems
addArray(h, schema, parent, key, index) ==
    IF h.err THEN h
    ELSE
    LET s == h.schemas[schema]
        p == h.obj[parent]
        uniqueKey == p.uniqueKey
                     \o (IF p.type # "array"
                         THEN (IF index # "" THEN "_" \o Pad3(index) ELSE "_" \o key)
                         ELSE "")
        id == Len(h.obj) + 1
        node == [NewNode("array", key, uniqueKey, parent) EXCEPT
                    !.body = Len(h.fields) + 1, !.cs = Len(h.cs) + 1,
                    !.schema = schema,
                    !.minItems = s.minItems, !.maxItems = s.maxItems]
        h1 == [h EXCEPT !.obj = Append(@, Born(h, node)), !.cs = Append(@, <<>>),
                        !.fields = Append(@, <<>>), !.ctl = Append(@, <<>>)]
        h2 == AttachToParent(h1, parent, key, id)
        h3 == IF Len(s.anyOf) > 0 \/ Len(s.oneOf) > 0 \/ s.hasIf \/ Len(s.allOf) > 0
              THEN Call("processSchema", h2, <<schema, id, "">>)
              ELSE h2
    IN IF s.items # "" /\ s.minItems > 0
       THEN addArrayItems(h3, id, s.minItems)
       ELSE h3

\* addArray without its pre-population loop
addArrayItemsSkipped(h, array, count) == h

\* for (let i = 0; i < schema.minItems; i++) this.addArrayItem(fieldArray)
addArrayItems(h, array, count) ==
    IF h.err \/ count <= 0 THEN h
    ELSE addArrayItems(Call("addArrayItem", h, <<array>>), array, count - 1)

\* addArrayItem: one more item built from the array's itemSchema
addArrayItem(h, array) ==
    IF h.err THEN h
    ELSE
    LET a == h.obj[array]
        itemSchema == h.schemas[a.schema].items
        itemIndex == Len(h.fields[a.body])
        itemKey == a.key \o "_" \o ToString(itemIndex + 1)
    IN IF itemSchema = "" THEN h
       ELSE IF h.schemas[itemSchema].type = "object"
       THEN Call("addGroup", h, <<itemSchema, array, itemKey, ToString(itemIndex)>>)
       ELSE IF h.schemas[itemSchema].type = "array"
       THEN Call("addArray", h, <<itemSchema, array, itemKey, ToString(itemIndex)>>)
       ELSE Call("addField", h, <<itemSchema, array, itemKey, ToString(itemIndex), FALSE>>)

\* the checkbox (anyOf) or radio (oneOf) selector: a field outside the FormGroup
\* whose subscription runs handleConditionalSchemas
AddSelector(h, type, key, parent, value, descriptors) ==
    LET p == h.obj[parent]
        uniqueKey == p.uniqueKey \o "_" \o key
        id == Len(h.obj) + 1
        node == [NewNode(type, key, uniqueKey, parent) EXCEPT
                    !.cs = Len(h.cs) + 1, !.value = value]
    IN [h EXCEPT !.obj = Append(@, Born(h, node)), !.cs = Append(@, descriptors),
                 !.fields[p.body] = FieldsSet(@, key, id),
                 !.subs = FieldsSet(@, uniqueKey, id),
                 !.act = @ \cup {id}]

\* the schema of option i after its $ref, if any, is resolved ("" for null)
OptionSchema(h, option) ==
    IF h.schemas[option].ref # "" THEN resolveRef(h, h.schemas[option].ref) ELSE option

\* handleAnyOf: one checkbox per option, in a wrapper group when keyed
handleAnyOf(h, schema, parent, key) ==
    IF h.err THEN h
    ELSE IF h.obj[parent].type # "group" THEN h
    ELSE
    LET usesRandom == key = ""
        baseKey == IF key # "" THEN key ELSE RandomKey(h)
        h0 == IF usesRandom THEN [h EXCEPT !.rnd.n = @ + 1] ELSE h
        h1 == IF key # "" THEN Call("addGroup", h0, <<"wrapperGroupSchema", parent, key, "">>) ELSE h0
        checkboxParent == IF key # ""
                          THEN Lookup(h1.fields[h1.obj[parent].body], key)
                          ELSE parent
    IN handleAnyOfLoop(h1, schema, checkboxParent, baseKey, 1)

handleAnyOfLoop(h, schema, checkboxParent, baseKey, i) ==
    IF h.err \/ i > Len(h.schemas[schema].anyOf) THEN h
    ELSE
    LET anyOfSchema == OptionSchema(h, h.schemas[schema].anyOf[i])
        checkboxKey == baseKey \o "_" \o anyOfKeySegment \o "_" \o ToString(i)
    IN IF anyOfSchema = ""
       THEN [h EXCEPT !.err = TRUE]   \* anyOfSchema.title of null
       ELSE handleAnyOfLoop(
                AddSelector(h, "checkbox", checkboxKey, checkboxParent, Bool(FALSE),
                            <<Desc(Bool(TRUE), Bool(FALSE), anyOfSchema)>>),
                schema, checkboxParent, baseKey, i + 1)

\* handleOneOf: one radio whose option i triggers branch i, in a wrapper group when keyed
handleOneOf(h, schema, parent, key) ==
    IF h.err THEN h
    ELSE IF h.obj[parent].type # "group" THEN h
    ELSE
    LET s == h.schemas[schema]
        usesRandom == key = ""
        baseKey == IF key # "" THEN key ELSE RandomKey(h)
        h0 == IF usesRandom THEN [h EXCEPT !.rnd.n = @ + 1] ELSE h
        h1 == IF key # "" THEN Call("addGroup", h0, <<"wrapperGroupSchema", parent, key, "">>) ELSE h0
        radioParent == IF key # ""
                       THEN Lookup(h1.fields[h1.obj[parent].body], key)
                       ELSE parent
        radioKey == baseKey \o "_" \o oneOfKeySegment
        descriptors == [i \in 1..Len(s.oneOf) |->
                          Desc(Num(i - 1), Undef, OptionSchema(h1, s.oneOf[i]))]
    IN IF h1.err THEN h1
       ELSE IF \E i \in 1..Len(s.oneOf) : OptionSchema(h1, s.oneOf[i]) = ""
       THEN [h1 EXCEPT !.err = TRUE]   \* oneOfSchema.properties of null
       ELSE AddSelector(h1, "radio", radioKey, radioParent, Null, descriptors)

\* the `if`/`then`/`else` step of processSchema: a descriptor pushed on the
\* field each property of `if` names, looked up in the parent group and, when
\* absent there, in the parent's parent
processIfLoop(h, schema, parent) ==
    LET s == h.schemas[schema]
        p == h.obj[parent]
        Target(ifKey) ==
            IF p.type # "group" THEN 0
            ELSE LET local == Lookup(h.fields[p.body], ifKey)
                 IN IF local # 0 THEN local
                    ELSE IF p.parent # 0 /\ h.obj[p.parent].type = "group"
                    THEN Lookup(h.fields[h.obj[p.parent].body], ifKey)
                    ELSE 0
        Pushed(ifProp) ==
            <<Desc(ifProp.c, Undef, s.then)>>
            \o (IF s.else # "" THEN <<Desc(Undef, ifProp.c, s.else)>> ELSE <<>>)
        RECURSIVE Loop(_, _)
        Loop(cs, i) ==
            IF i > Len(s.ifProps) THEN cs
            ELSE LET field == Target(s.ifProps[i].k)
                 IN IF field = 0 THEN Loop(cs, i + 1)
                    ELSE Loop([cs EXCEPT ![h.obj[field].cs] = @ \o Pushed(s.ifProps[i])], i + 1)
    IN [h EXCEPT !.cs = Loop(h.cs, 1)]

\* the steps of processSchema after the $ref step, each on the heap the step
\* before it left
processSchemaAnyOf(h, schema, parent, key) ==
    IF Len(h.schemas[schema].anyOf) > 0
    THEN Call("handleAnyOf", h, <<schema, parent, key>>) ELSE h

processSchemaOneOf(h, schema, parent, key) ==
    IF Len(h.schemas[schema].oneOf) > 0
    THEN Call("handleOneOf", h, <<schema, parent, key>>) ELSE h

processSchemaProperties(h, schema, parent) ==
    IF h.schemas[schema].hasProps THEN processPropertiesLoop(h, schema, parent, 1) ELSE h

processSchemaAllOf(h, schema, parent) ==
    IF Len(h.schemas[schema].allOf) > 0
    THEN processAllOfLoop(h, h.schemas[schema].allOf, parent, 1) ELSE h

processSchemaIf(h, schema, parent) ==
    IF h.err \/ ~(h.schemas[schema].hasIf /\ h.schemas[schema].then # "") THEN h
    ELSE processIfLoop(h, schema, parent)

\* processSchema with the if/then/else step ahead of properties and allOf
processSchemaBodyIfFirst(h, schema, parent, key) ==
    IF h.err THEN h
    ELSE IF h.schemas[schema].type = "array" /\ h.schemas[schema].items # ""
            /\ ~h.schemas[schema].hasProps
    THEN (IF key # "" THEN Call("addArray", h, <<schema, parent, key, "">>) ELSE h)
    ELSE processSchemaAllOf(
             processSchemaProperties(processSchemaIf(h, schema, parent), schema, parent),
             schema, parent)

\* the top-level array step of processSchema, and what follows it otherwise
processSchemaBody(h, schema, parent, key) ==
    IF h.err THEN h
    ELSE IF h.schemas[schema].type = "array" /\ h.schemas[schema].items # ""
            /\ ~h.schemas[schema].hasProps
    THEN (IF key # "" THEN Call("addArray", h, <<schema, parent, key, "">>) ELSE h)
    ELSE processSchemaIf(
             processSchemaAllOf(processSchemaProperties(h, schema, parent), schema, parent),
             schema, parent)

\* a call that follows a resolved $ref: one more frame chain on the stack while
\* it runs; the stack is exhausted when no $ref ever stops resolving
FollowRef(h, method, a) ==
    IF h.depth >= MaxCallDepth THEN [h EXCEPT !.err = TRUE, !.overflow = TRUE]
    ELSE [Call(method, [h EXCEPT !.depth = @ + 1], a) EXCEPT !.depth = h.depth]

\* processSchema: $ref, anyOf, oneOf, top-level array, properties, allOf, if/then/else
processSchema(h, schema, parent, key) ==
    IF h.err THEN h
    ELSE IF h.schemas[schema].ref # ""
    THEN (IF resolveRef(h, h.schemas[schema].ref) # ""
          THEN FollowRef(h, "processSchema",
                         <<resolveRef(h, h.schemas[schema].ref), parent, key>>)
          ELSE h)
    ELSE processSchemaBody(
             processSchemaOneOf(processSchemaAnyOf(h, schema, parent, key),
                                schema, parent, key),
             schema, parent, key)

\* for (let i = 0; i < propertyEntries.length; i++) of processSchema
processPropertiesLoop(h, schema, parent, i) ==
    IF h.err \/ i > Len(h.schemas[schema].props) THEN h
    ELSE
    LET propKey == h.schemas[schema].props[i].k
        propertySchema == h.schemas[schema].props[i].s
        resolvedSchema == IF h.schemas[propertySchema].ref # ""
                          THEN resolveRef(h, h.schemas[propertySchema].ref) ELSE ""
        actualSchema == IF resolvedSchema # "" THEN resolvedSchema ELSE propertySchema
        a == h.schemas[actualSchema]
        index == ToString(i - 1)
        method == IF Len(a.anyOf) > 0 \/ Len(a.oneOf) > 0 THEN "processSchema"
                  ELSE IF a.type = "object" THEN "addGroup"
                  ELSE IF a.type = "array" THEN "addArray"
                  ELSE "addField"
        args == IF method = "processSchema" THEN <<actualSchema, parent, propKey>>
                ELSE IF method = "addField" THEN <<actualSchema, parent, propKey, index, FALSE>>
                ELSE <<actualSchema, parent, propKey, index>>
        h1 == IF resolvedSchema # "" THEN FollowRef(h, method, args) ELSE Call(method, h, args)
    IN processPropertiesLoop(h1, schema, parent, i + 1)

\* for (const allOfSchema of schema.allOf) this.processSchema(allOfSchema, parent)
processAllOfLoop(h, allOf, parent, i) ==
    IF h.err \/ i > Len(allOf) THEN h
    ELSE processAllOfLoop(Call("processSchema", h, <<allOf[i], parent, "">>), allOf, parent, i + 1)

\* schema.$defs[key].$id ? schema.$defs[key].$id : key
DefKey(h, entry) == IF h.schemas[entry.s].id # "" THEN h.schemas[entry.s].id ELSE entry.k

\* the root-level $defs of a document, entered in the defsMap unless the key is taken
SetDefs(h, entries) ==
    LET RECURSIVE Loop(_, _)
        Loop(d, i) ==
            IF i > Len(entries) THEN d
            ELSE Loop(IF HasKey(d, DefKey(h, entries[i])) THEN d
                      ELSE Append(d, Entry(DefKey(h, entries[i]), entries[i].s)), i + 1)
    IN Loop(h.defs, 1)

\* the schema objects directly below a schema object: Object.values(obj), and
\* the values of those that are plain maps or arrays
SubSchemas(h, schema) ==
    LET s == h.schemas[schema]
    IN [i \in 1..Len(s.defs) |-> s.defs[i].s]
       \o [i \in 1..Len(s.definitions) |-> s.definitions[i].s]
       \o [i \in 1..Len(s.props) |-> s.props[i].s]
       \o (IF s.items # "" THEN <<s.items>> ELSE <<>>)
       \o s.allOf \o s.anyOf \o s.oneOf
       \o (IF s.then # "" THEN <<s.then>> ELSE <<>>)
       \o (IF s.else # "" THEN <<s.else>> ELSE <<>>)

RECURSIVE collectDefs(_, _)
RECURSIVE collectDefsBelow(_, _, _)
\* collectDefs of dereferenceSchema: every $defs entry of the object, then the
\* same for every value below it; an entry overwrites one of the same key
collectDefs(h, schema) ==
    LET s == h.schemas[schema]
        RECURSIVE Loop(_, _)
        Loop(d, i) ==
            IF i > Len(s.defs) THEN d
            ELSE Loop(FieldsSet(d, DefKey(h, s.defs[i]), s.defs[i].s), i + 1)
    IN collectDefsBelow([h EXCEPT !.defs = Loop(h.defs, 1)], SubSchemas(h, schema), 1)

collectDefsBelow(h, below, i) ==
    IF i > Len(below) THEN h
    ELSE collectDefsBelow(collectDefs(h, below[i]), below, i + 1)

\* schemaToFieldConfig: a fresh root group, then the schema compiled into it;
\* the result carries the new root in .root
schemaToFieldConfig(h, schema) ==
    LET s == h.schemas[schema]
        id == Len(h.obj) + 1
        rootGroup == [NewNode("group", "root", "root", 0) EXCEPT
                         !.body = Len(h.fields) + 1, !.cs = Len(h.cs) + 1,
                         !.req = IF s.required # 0 /\ Len(h.req[s.required]) > 0
                                 THEN s.required ELSE 0,
                         !.schema = schema]
        h1 == [h EXCEPT !.defs = SetDefs(h, s.defs),
                        !.obj = Append(@, rootGroup), !.cs = Append(@, <<>>),
                        !.fields = Append(@, <<>>), !.ctl = Append(@, <<>>)]
    IN Call("processSchema", h1, <<schema, id, "root">>)

(***************************************************************************)
(* Teardown.                                                               *)
(***************************************************************************)
RECURSIVE cleanupSubscriptionsLoop(_, _, _)
RECURSIVE cleanupNestedFieldsLoop(_, _, _, _)
RECURSIVE cleanupNestedItemsLoop(_, _, _)
RECURSIVE cleanupNestedDescriptorsLoop(_, _, _)
RECURSIVE cleanupAddedKeysLoop(_, _, _, _)
RECURSIVE SubtreeKeys(_, _)

\* the uniqueKeys of a node and of everything below it
SubtreeKeys(h, n) ==
    LET node == h.obj[n]
    IN {node.uniqueKey}
       \cup (IF IsLeafType(node.type) THEN {}
             ELSE UNION {SubtreeKeys(h, h.fields[node.body][i].n) :
                            i \in 1..Len(h.fields[node.body])})

\* ghost: the uniqueKeys of the subtree of n join the keys of removed nodes
MarkGone(h, n) == [h EXCEPT !.gone = @ \cup SubtreeKeys(h, n)]

\* the body of the loops of cleanupFieldSubscriptions and cleanupArraySubscriptions,
\* over a snapshot of the group's fields or the array's items
cleanupSubscriptionsLoop(h, entries, i) ==
    IF i > Len(entries) THEN h
    ELSE
    LET field == h.obj[entries[i].n]
        h1 == IF field.type = "group" THEN Call("cleanupFieldSubscriptions", h, <<entries[i].n>>)
              ELSE IF field.type = "array" THEN Call("cleanupArraySubscriptions", h, <<entries[i].n>>)
              ELSE Unsubscribe(h, field.uniqueKey)
    IN cleanupSubscriptionsLoop(h1, entries, i + 1)

\* cleanupFieldSubscriptions: unsubscribe every leaf below a group, by uniqueKey
cleanupFieldSubscriptions(h, fieldGroup) ==
    cleanupSubscriptionsLoop(h, h.fields[h.obj[fieldGroup].body], 1)

\* cleanupArraySubscriptions: unsubscribe every leaf below an array, by uniqueKey
cleanupArraySubscriptions(h, fieldArray) ==
    cleanupSubscriptionsLoop(h, h.fields[h.obj[fieldArray].body], 1)

\* parentArray.items.findIndex(item => item.key === key), from 0; -1 when absent
FindIndex(h, items, key) ==
    IF \E i \in 1..Len(items) : h.obj[items[i].n].key = key
    THEN (CHOOSE i \in 1..Len(items) :
              /\ h.obj[items[i].n].key = key
              /\ \A j \in 1..(i - 1) : h.obj[items[j].n].key # key) - 1
    ELSE -1

\* the common shape of removeGroup and removeArray
RemoveContainer(h, key, parent, isGroup) ==
    LET p == h.obj[parent]
    IN IF p.type = "group"
       THEN LET n == Lookup(h.fields[p.body], key)
                h0 == IF n # 0 THEN MarkGone(h, n) ELSE h
                h1 == IF n = 0 THEN h0
                      ELSE IF isGroup THEN Call("cleanupFieldSubscriptions", h0, <<n>>)
                      ELSE Call("cleanupArraySubscriptions", h0, <<n>>)
            IN [h1 EXCEPT !.ctl[p.body] = FieldsDel(@, key),
                          !.fields[p.body] = FieldsDel(@, key)]
       ELSE IF p.type = "array"
       THEN LET index == FindIndex(h, h.fields[p.body], key)
            IN IF index = -1 THEN h
               ELSE LET n == h.fields[p.body][index + 1].n
                        h0 == MarkGone(h, n)
                        h1 == IF isGroup THEN Call("cleanupFieldSubscriptions", h0, <<n>>)
                              ELSE Call("cleanupArraySubscriptions", h0, <<n>>)
                    IN [h1 EXCEPT !.fields[p.body] = SpliceOut(@, index),
                                  !.ctl[p.body] = SpliceOut(@, index)]
       ELSE h

\* removeGroup
removeGroup(h, key, parent) == RemoveContainer(h, key, parent, TRUE)

\* removeArray
removeArray(h, key, parent) == RemoveContainer(h, key, parent, FALSE)

\* removeField: unsubscribe parent.fields[key], remove its control and its entry
removeField(h, key, parent) ==
    LET p == h.obj[parent]
    IN IF p.type # "group" THEN h
       ELSE LET n == Lookup(h.fields[p.body], key)
                h1 == IF n # 0 THEN Unsubscribe(MarkGone(h, n), h.obj[n].uniqueKey) ELSE h
            IN [h1 EXCEPT !.ctl[p.body] = FieldsDel(@, key),
                          !.fields[p.body] = FieldsDel(@, key)]

\* removeArrayItem without its bounds check: item.type of undefined
removeArrayItemUnchecked(h, fieldArray, index) ==
    IF index < 0 \/ index >= Len(h.fields[h.obj[fieldArray].body])
    THEN [h EXCEPT !.err = TRUE]
    ELSE h

\* removeArrayItem: bounds check, release the item's subscriptions, splice it out
removeArrayItem(h, fieldArray, index) ==
    LET a == h.obj[fieldArray]
        items == h.fields[a.body]
    IN IF index < 0 \/ index >= Len(items) THEN h
       ELSE LET n == items[index + 1].n
                item == h.obj[n]
                h0 == MarkGone(h, n)
                h1 == IF item.type = "group" THEN Call("cleanupFieldSubscriptions", h0, <<n>>)
                      ELSE IF item.type = "array" THEN Call("cleanupArraySubscriptions", h0, <<n>>)
                      ELSE Unsubscribe(h0, item.uniqueKey)
            IN [h1 EXCEPT !.fields[a.body] = SpliceOut(@, index),
                          !.ctl[a.body] = SpliceOut(@, index)]

\* cleanupAndRemoveItem: tear down what the item's descriptors added, then remove it
cleanupAndRemoveItem(h, item, key, parent) ==
    LET h1 == Call("cleanupNestedConditionalSchemas", h, <<item>>)
        type == h.obj[item].type
    IN IF h.obj[parent].type # "group" THEN h1
       ELSE IF type = "group" THEN Call("removeGroup", h1, <<key, parent>>)
       ELSE IF type = "array" THEN Call("removeArray", h1, <<key, parent>>)
       ELSE Call("removeField", h1, <<key, parent>>)

\* cleanupNestedConditionalSchemas: depth first through a group's fields or an
\* array's items, then the item's own descriptors
cleanupNestedConditionalSchemas(h, item) ==
    LET node == h.obj[item]
        h1 == IF node.type = "group"
              THEN cleanupNestedFieldsLoop(h, node.body, Keys(h.fields[node.body]), 1)
              ELSE h
        h2 == IF node.type = "array"
              THEN cleanupNestedItemsLoop(h1, h1.fields[node.body], 1)
              ELSE h1
    IN cleanupNestedDescriptorsLoop(h2, item, 1)

\* for (const fieldKey of fieldKeys): the keys are a copy, the lookup is live
cleanupNestedFieldsLoop(h, body, fieldKeys, i) ==
    IF i > Len(fieldKeys) THEN h
    ELSE LET field == Lookup(h.fields[body], fieldKeys[i])
         IN cleanupNestedFieldsLoop(
                IF field # 0 THEN Call("cleanupNestedConditionalSchemas", h, <<field>>) ELSE h,
                body, fieldKeys, i + 1)

\* for (const arrayItem of items), items a copy
cleanupNestedItemsLoop(h, items, i) ==
    IF i > Len(items) THEN h
    ELSE cleanupNestedItemsLoop(Call("cleanupNestedConditionalSchemas", h, <<items[i].n>>), items, i + 1)

\* for (const conditionalSchema of item.conditionalSchemas)
cleanupNestedDescriptorsLoop(h, item, i) ==
    LET node == h.obj[item]
    IN IF i > Len(h.cs[node.cs]) THEN h
       ELSE LET d == h.cs[node.cs][i]
                parent == node.parent
                h1 == IF Len(d.added) = 0 THEN h
                      ELSE [(IF parent # 0 /\ h.obj[parent].type = "group"
                             THEN cleanupAddedKeysLoop(h, d.added, parent, 1)
                             ELSE h)
                            EXCEPT !.cs[node.cs][i].added = <<>>]
            IN cleanupNestedDescriptorsLoop(h1, item, i + 1)

\* for (const key of conditionalSchema.addedKeys): remove the keys still in the parent
cleanupAddedKeysLoop(h, addedKeys, parent, i) ==
    IF i > Len(addedKeys) THEN h
    ELSE LET item == Lookup(h.fields[h.obj[parent].body], addedKeys[i])
         IN cleanupAddedKeysLoop(
                IF item # 0 THEN Call("cleanupAndRemoveItem", h, <<item, addedKeys[i], parent>>) ELSE h,
                addedKeys, parent, i + 1)

(***************************************************************************)
(* Conditional maintenance.                                                *)
(***************************************************************************)
RECURSIVE handleConditionalLoop(_, _, _, _, _)

ShouldAdd(d, currentValue) == d.tv.t # "undefined" /\ StrictEq(currentValue, d.tv)

ShouldRemove(d, currentValue) == d.rtv.t # "undefined" /\ StrictEq(currentValue, d.rtv)

\* the descriptors left in the order they were pushed
SortDescriptorsSkipped(list, currentValue) == list

\* field.conditionalSchemas.sort(...): a stable sort that puts the descriptors
\* that should not be added before those that should
SortDescriptors(list, currentValue) ==
    SelectSeq(list, LAMBDA d : ~ShouldAdd(d, currentValue))
    \o SelectSeq(list, LAMBDA d : ShouldAdd(d, currentValue))

\* the keys of a group's fields, none for an array
KeysOf(h, parent) ==
    IF h.obj[parent].type = "group" THEN Keys(h.fields[h.obj[parent].body]) ELSE <<>>

\* the result of processProperties: the heap and the keys that were not there before
NewKeys(h, keysBefore, parent) ==
    [h |-> h, ret |-> SelectSeq2(KeysOf(h, parent), Range(keysBefore))]

\* processProperties: compile a schema into the parent and report the keys that
\* were not there before; the result is [h, ret]
processProperties(h, schema, parent) ==
    NewKeys(Call("processSchema", h, <<schema, parent, "">>), KeysOf(h, parent), parent)

\* a handleConditionalSchemas that leaves parent.requiredFields alone
MergeRequiredSkipped(h, schema, parent) == h

\* the merge of schema.required into parent.requiredFields
MergeRequired(h, schema, parent) ==
    LET s == h.schemas[schema]
        p == h.obj[parent]
    IN IF ~(s.required # 0 /\ Len(h.req[s.required]) > 0 /\ p.type = "group") THEN h
       ELSE LET h1 == IF p.req # 0 THEN h
                      ELSE [h EXCEPT !.req = Append(@, <<>>),
                                     !.obj[parent].req = Len(h.req) + 1]
                cell == h1.obj[parent].req
                RECURSIVE Loop(_, _)
                Loop(hh, i) ==
                    \* the loop reads schema.required while it pushes on requiredFields
                    IF i > Len(hh.req[s.required]) THEN hh
                    ELSE Loop(IF hh.req[s.required][i] \in Range(hh.req[cell]) THEN hh
                              ELSE [hh EXCEPT !.req[cell] = Append(@, hh.req[s.required][i])],
                              i + 1)
            IN Loop(h1, 1)

\* { ...parent, uniqueKey: field.uniqueKey }: a new object that shares fields,
\* groupRef, conditionalSchemas and requiredFields with the parent
SpreadParent(h, parent, field) ==
    [h EXCEPT !.obj = Append(@, [h.obj[parent] EXCEPT
                                    !.uniqueKey = h.obj[field].uniqueKey,
                                    !.copy = TRUE])]

\* the removal step for descriptor i: the keys it added leave the parent
RevertDescriptor(h, field, currentValue, parent, i) ==
    LET csid == h.obj[field].cs
        d == h.cs[csid][i]
    IN IF Len(d.added) > 0
          /\ (ShouldRemove(d, currentValue) \/ ~ShouldAdd(d, currentValue))
       THEN [(IF h.obj[parent].type = "group"
              THEN cleanupAddedKeysLoop(h, d.added, parent, 1)
              ELSE h)
             EXCEPT !.cs[csid][i].added = <<>>]
       ELSE h

\* conditionalSchema.addedKeys = addedKeys
SetAddedKeys(r, csid, i) ==
    IF r.h.err THEN r.h ELSE [r.h EXCEPT !.cs[csid][i].added = r.ret]

\* the add step for descriptor i: merge `required`, compile the branch into a
\* spread copy of the parent, record the new keys
MaterializeDescriptor(h, field, currentValue, parent, i) ==
    LET csid == h.obj[field].cs
        d == h.cs[csid][i]
    IN IF ~(ShouldAdd(d, currentValue) /\ Len(d.added) = 0) THEN h
       ELSE IF d.schema = "" THEN [h EXCEPT !.err = TRUE]  \* null.required
       ELSE SetAddedKeys(
                processProperties(SpreadParent(MergeRequired(h, d.schema, parent),
                                               parent, field),
                                  d.schema, Len(h.obj) + 1),
                csid, i)

\* handleConditionalSchemas: sort, then for each descriptor revert and / or materialize
handleConditionalSchemas(h, field, currentValue, parent) ==
    IF h.err THEN h
    ELSE IF Len(h.cs[h.obj[field].cs]) = 0 THEN h
    ELSE handleConditionalLoop(
             [h EXCEPT !.cs[h.obj[field].cs] = SortDescriptors(@, currentValue)],
             field, currentValue, parent, 1)

\* for (const conditionalSchema of field.conditionalSchemas)
handleConditionalLoop(h, field, currentValue, parent, i) ==
    IF h.err \/ i > Len(h.cs[h.obj[field].cs]) THEN h
    ELSE handleConditionalLoop(
             MaterializeDescriptor(
                 RevertDescriptor(h, field, currentValue, parent, i),
                 field, currentValue, parent, i),
             field, currentValue, parent, i + 1)

(***************************************************************************)
(* Patch: phase 1 (structure), phase 2 (FormGroup.patchValue), read-back.  *)
(***************************************************************************)
RECURSIVE valueMatchesSchema(_, _, _)
RECURSIVE prepareFieldsLoop(_, _, _, _, _)
RECURSIVE prepareItemsLoop(_, _, _, _)
RECURSIVE prepareAddedGroupsLoop(_, _, _, _, _)
RECURSIVE selectOneOfLoop(_, _, _, _, _)
RECURSIVE selectAnyOfLoop(_, _, _, _, _)
RECURSIVE ifThenElseAddedLoop(_, _, _, _, _, _)
RECURSIVE growArray(_, _, _)
RECURSIVE PatchGroupLoop(_, _, _, _)
RECURSIVE PatchArrayLoop(_, _, _, _)
RECURSIVE ReadControl(_, _)

\* valueMatchesSchema: the heuristic that picks oneOf / anyOf branches
valueMatchesSchema(h, value, schema) ==
    IF schema = "" \/ ~Truthy(value) \/ ~IsObjectType(value) THEN FALSE
    ELSE LET s == h.schemas[schema]
         IN IF s.ref # ""
            THEN (LET resolvedSchema == resolveRef(h, s.ref)
                  IN IF resolvedSchema # ""
                     THEN valueMatchesSchema(h, value, resolvedSchema)
                     ELSE FALSE)
            ELSE IF s.hasProps
            THEN \E i \in 1..Len(s.props) : s.props[i].k \in Range(ObjectKeys(value))
            ELSE IF s.const.t # "undefined" THEN StrictEq(value, s.const)
            ELSE IF s.hasEnum THEN \E i \in 1..Len(s.enum) : StrictEq(value, s.enum[i])
            ELSE TRUE

\* control.setValue(value, { emitEvent: false })
SetValueSilently(h, n, value) == IF h.err THEN h ELSE [h EXCEPT !.obj[n].value = value]

\* where the stable sort of handleConditionalSchemas puts the descriptor that
\* was at place i of list
SortedPlace(list, currentValue, i) ==
    LET before == {j \in 1..(i - 1) : ShouldAdd(list[j], currentValue) = ShouldAdd(list[i], currentValue)}
        notAdded == {j \in 1..Len(list) : ~ShouldAdd(list[j], currentValue)}
    IN IF ShouldAdd(list[i], currentValue)
       THEN Cardinality(notAdded) + Cardinality(before) + 1
       ELSE Cardinality(before) + 1

\* the keys of a group's fields that name anyOf checkboxes
AnyOfCheckboxKeys(h, keys, group) ==
    SelectSeq(keys,
              LAMBDA k : /\ Includes(k, anyOfKeySegment)
                         /\ Lookup(h.fields[h.obj[group].body], k) # 0
                         /\ h.obj[Lookup(h.fields[h.obj[group].body], k)].type = "checkbox")

\* Object.keys(group.fields).find(k => k.endsWith(oneOfKeySegment)), "" when none
OneOfRadioKey(h, group) ==
    LET keys == Keys(h.fields[h.obj[group].body])
        hits == SelectSeq(keys, LAMBDA k : EndsWith(k, oneOfKeySegment))
    IN IF hits = <<>> THEN "" ELSE hits[1]

\* for (const addedKey of conditionalSchema.addedKeys): prepare the added groups
prepareAddedGroupsLoop(h, addedKeys, group, value, i) ==
    IF h.err \/ i > Len(addedKeys) THEN h
    ELSE LET addedField == Lookup(h.fields[h.obj[group].body], addedKeys[i])
             h1 == IF addedField # 0 /\ h.obj[addedField].type = "group"
                      /\ Truthy(Get(value, addedKeys[i]))
                   THEN Call("prepareStructureForValue", h, <<addedField, Get(value, addedKeys[i])>>)
                   ELSE h
         IN prepareAddedGroupsLoop(h1, addedKeys, group, value, i + 1)

\* selectOneOfOption: the first descriptor, in the array's current order, whose
\* schema matches is triggered with its place in the array as the value
selectOneOfOption(h, group, radioKey, value) ==
    IF h.err THEN h
    ELSE LET radioField == Lookup(h.fields[h.obj[group].body], radioKey)
         IN IF radioField = 0 THEN h
            ELSE selectOneOfLoop(h, group, radioField, value, 1)

selectOneOfLoop(h, group, radioField, value, i) ==
    LET csid == h.obj[radioField].cs
        list == h.cs[csid]
    IN IF h.err \/ i > Len(list) THEN h
       ELSE IF ~valueMatchesSchema(h, value, list[i].schema)
       THEN selectOneOfLoop(h, group, radioField, value, i + 1)
       ELSE LET h1 == Call("handleConditionalSchemas", h, <<radioField, Num(i - 1), group>>)
                h2 == SetValueSilently(h1, radioField, Num(i - 1))
                \* conditionalSchema is still the object that was at place i
                place == SortedPlace(list, Num(i - 1), i)
            IN IF h2.err THEN h2
               ELSE prepareAddedGroupsLoop(h2, h2.cs[csid][place].added, group, value, 1)

\* a patch that selects no anyOf option
selectAnyOfOptionsSkipped(h, group, checkboxKeys, value) == h

\* selectAnyOfOptions: every checkbox whose branch matches is checked and materialized
selectAnyOfOptions(h, group, checkboxKeys, value) ==
    selectAnyOfLoop(h, group, checkboxKeys, value, 1)

selectAnyOfLoop(h, group, checkboxKeys, value, i) ==
    IF h.err \/ i > Len(checkboxKeys) THEN h
    ELSE
    LET checkboxField == Lookup(h.fields[h.obj[group].body], checkboxKeys[i])
        csid == IF checkboxField = 0 THEN 0 ELSE h.obj[checkboxField].cs
        h1 == IF checkboxField = 0 THEN h
              ELSE IF Len(h.cs[csid]) = 0 THEN h
              ELSE IF ~valueMatchesSchema(h, value, h.cs[csid][1].schema) THEN h
              ELSE LET h2 == Call("handleConditionalSchemas", h, <<checkboxField, Bool(TRUE), group>>)
                       h3 == SetValueSilently(h2, checkboxField, Bool(TRUE))
                       place == SortedPlace(h.cs[csid], Bool(TRUE), 1)
                   IN IF h3.err THEN h3
                      ELSE prepareAddedGroupsLoop(h3, h3.cs[csid][place].added,
                                                  group, value, 1)
    IN selectAnyOfLoop(h1, group, checkboxKeys, value, i + 1)

\* while (array.items.length < arrayValue.length) this.addArrayItem(array)
growArray(h, array, length) ==
    IF h.err \/ Len(h.fields[h.obj[array].body]) >= length THEN h
    ELSE LET h1 == Call("addArrayItem", h, <<array>>)
         IN \* an array without an item template never grows: the loop of the
            \* code does not end; the model stops it as an exception
            IF Len(h1.fields[h1.obj[array].body]) = Len(h.fields[h.obj[array].body])
            THEN [h1 EXCEPT !.err = TRUE]
            ELSE growArray(h1, array, length)

\* for (let i = 0; i < array.items.length; i++): prepare the items that are groups
prepareItemsLoop(h, array, arrayValue, i) ==
    LET items == h.fields[h.obj[array].body]
    IN IF h.err \/ i > Len(items) THEN h
       ELSE prepareItemsLoop(
                IF h.obj[items[i].n].type = "group" /\ Truthy(At(arrayValue, i - 1))
                THEN Call("prepareStructureForValue", h, <<items[i].n, At(arrayValue, i - 1)>>)
                ELSE h,
                array, arrayValue, i + 1)

\* the array branch shared by prepareStructureForValue and handleIfThenElseForPatch
prepareArray(h, array, arrayValue) ==
    IF arrayValue.t # "array" THEN h
    ELSE prepareItemsLoop(growArray(h, array, Len(arrayValue.kv)), array, arrayValue, 1)

\* addAdditionalPropertiesFromValue: a removeable leaf for every scalar extra key
addAdditionalPropertiesFromValue(h, fieldGroup, value) ==
    IF ~Truthy(value) \/ ~IsObjectType(value) THEN h
    ELSE
    LET existingKeys == Range(Keys(h.fields[h.obj[fieldGroup].body]))
        valueKeys == ObjectKeys(value)
        RECURSIVE Loop(_, _)
        Loop(hh, i) ==
            IF hh.err \/ i > Len(valueKeys) THEN hh
            ELSE LET key == valueKeys[i]
                     v == Get(value, key)
                 IN Loop(IF key \in existingKeys \/ StartsWith(key, "_") \/ IsObjectType(v)
                         THEN hh
                         ELSE Call("addField", hh, <<IF v.t = "number" THEN "number" ELSE "string",
                                       fieldGroup, key, "", TRUE>>),
                         i + 1)
    IN Loop(h, 1)

\* handleIfThenElseForPatch: run the conditional maintenance for the incoming
\* value, prepare what the matching descriptor added, then set the value silently
handleIfThenElseForPatch(h, field, fieldValue, parentGroup, fullValue) ==
    IF h.err THEN h
    ELSE
    LET h1 == Call("handleConditionalSchemas", h, <<field, fieldValue, parentGroup>>)
        list == IF h1.err THEN <<>> ELSE h1.cs[h1.obj[field].cs]
        hits == {i \in 1..Len(list) : StrictEq(list[i].tv, fieldValue)}
        first == IF hits = {} THEN 0 ELSE CHOOSE i \in hits : \A j \in hits : i <= j
        h2 == IF first = 0 THEN h1
              ELSE ifThenElseAddedLoop(h1, list[first].added, list[first].added,
                                       parentGroup, fullValue, 1)
    IN SetValueSilently(h2, field, fieldValue)

\* for (const addedKey of conditionalSchema.addedKeys) of handleIfThenElseForPatch
ifThenElseAddedLoop(h, addedKeys, allAddedKeys, parentGroup, fullValue, i) ==
    IF h.err \/ i > Len(addedKeys) THEN h
    ELSE
    LET addedKey == addedKeys[i]
        addedField == Lookup(h.fields[h.obj[parentGroup].body], addedKey)
        type == IF addedField = 0 THEN "" ELSE h.obj[addedField].type
        v == Get(fullValue, addedKey)
        h1 == IF addedField = 0 THEN h
              ELSE IF type = "group"
              THEN LET oneOfRadioKey == OneOfRadioKey(h, addedField)
                       ha == IF oneOfRadioKey # "" /\ Truthy(v)
                             THEN Call("selectOneOfOption", h, <<addedField, oneOfRadioKey, v>>)
                             ELSE h
                       anyOfCheckboxKeys ==
                           IF ha.err THEN <<>>
                           ELSE AnyOfCheckboxKeys(ha, Keys(ha.fields[ha.obj[addedField].body]),
                                                  addedField)
                       hb == IF Len(anyOfCheckboxKeys) > 0 /\ Truthy(v)
                             THEN Call("selectAnyOfOptions", ha, <<addedField, anyOfCheckboxKeys, v>>)
                             ELSE ha
                   IN IF Truthy(v) THEN Call("prepareStructureForValue", hb, <<addedField, v>>) ELSE hb
              ELSE IF type = "array" /\ Truthy(v) THEN prepareArray(h, addedField, v)
              ELSE IF type = "radio" /\ EndsWith(addedKey, oneOfKeySegment)
              THEN Call("selectOneOfOption", h, <<parentGroup, addedKey, fullValue>>)
              ELSE IF type = "checkbox" /\ Includes(addedKey, anyOfKeySegment)
              THEN LET anyOfCheckboxKeys == AnyOfCheckboxKeys(h, allAddedKeys, parentGroup)
                   IN IF Len(anyOfCheckboxKeys) > 0
                      THEN Call("selectAnyOfOptions", h, <<parentGroup, anyOfCheckboxKeys, fullValue>>)
                      ELSE h
              ELSE h
    IN ifThenElseAddedLoop(h1, addedKeys, allAddedKeys, parentGroup, fullValue, i + 1)

\* prepareStructureForValue: phase 1 of patchValue for one group
prepareStructureForValue(h, fieldGroup, value) ==
    IF h.err \/ ~Truthy(value) \/ ~IsObjectType(value) THEN h
    ELSE LET h1 == IF h.obj[fieldGroup].addl
                   THEN Call("addAdditionalPropertiesFromValue", h, <<fieldGroup, value>>)
                   ELSE h
         IN IF h1.err THEN h1
            ELSE prepareFieldsLoop(h1, fieldGroup, h1.fields[h1.obj[fieldGroup].body],
                                   value, 1)

\* for (const [key, field] of Object.entries(fieldGroup.fields)): the entries
\* are those of the time the loop started
prepareFieldsLoop(h, fieldGroup, entries, value, i) ==
    IF h.err \/ i > Len(entries) THEN h
    ELSE
    LET key == entries[i].k
        field == entries[i].n
        type == h.obj[field].type
        v == Get(value, key)
        h1 == IF type = "group"
              THEN LET oneOfRadioKey == OneOfRadioKey(h, field)
                       ha == IF oneOfRadioKey # ""
                             THEN Call("selectOneOfOption", h, <<field, oneOfRadioKey, value>>)
                             ELSE h
                       anyOfCheckboxKeys ==
                           IF ha.err THEN <<>>
                           ELSE AnyOfCheckboxKeys(ha, Keys(ha.fields[ha.obj[field].body]), field)
                       hb == IF Len(anyOfCheckboxKeys) > 0
                             THEN Call("selectAnyOfOptions", ha, <<field, anyOfCheckboxKeys, value>>)
                             ELSE ha
                   IN IF Truthy(v) THEN Call("prepareStructureForValue", hb, <<field, v>>) ELSE hb
              ELSE IF type = "array" THEN prepareArray(h, field, v)
              ELSE IF type = "radio" /\ EndsWith(key, oneOfKeySegment)
              THEN Call("selectOneOfOption", h, <<fieldGroup, key, value>>)
              ELSE IF type = "checkbox" /\ Includes(key, anyOfKeySegment)
              THEN Call("selectAnyOfOptions", 
                       h, <<fieldGroup,
                       AnyOfCheckboxKeys(h, Keys(h.fields[h.obj[fieldGroup].body]), fieldGroup),
                       value>>)
              ELSE IF Len(h.cs[h.obj[field].cs]) > 0 /\ v.t # "undefined"
              THEN Call("handleIfThenElseForPatch", h, <<field, v, fieldGroup, value>>)
              ELSE h
    IN prepareFieldsLoop(h1, fieldGroup, entries, value, i + 1)

\* the valueChanges subscription of a node: it runs handleConditionalSchemas
\* with the parent the node was created under, unless it was unsubscribed
Notify(h, n, value) ==
    IF h.err \/ n \notin h.act THEN h
    ELSE Call("handleConditionalSchemas", h, <<n, value, h.obj[n].parent>>)

\* AbstractControl.patchValue of the control of node n (a FormControl, a
\* FormGroup or a FormArray)
PatchControl(h, n, value) ==
    IF h.err THEN h
    ELSE LET node == h.obj[n]
         IN IF node.type = "group"
            THEN (IF value.t \in {"undefined", "null"} THEN h
                  ELSE PatchGroupLoop(h, node.body, value, 1))
            ELSE IF node.type = "array"
            THEN (IF value.t \in {"undefined", "null"} THEN h
                  ELSE IF value.t # "array" THEN [h EXCEPT !.err = TRUE]  \* value.forEach
                  ELSE PatchArrayLoop(h, node.body, value, 1))
            ELSE Notify([h EXCEPT !.obj[n].value = value], n, value)

\* Object.keys(value).forEach(name => this.controls[name]?.patchValue(value[name]))
PatchGroupLoop(h, body, value, i) ==
    IF h.err \/ i > Len(ObjectKeys(value)) THEN h
    ELSE LET name == ObjectKeys(value)[i]
             control == Lookup(h.ctl[body], name)
         IN PatchGroupLoop(IF control # 0 THEN Call("PatchControl", h, <<control, Get(value, name)>>) ELSE h,
                           body, value, i + 1)

\* value.forEach((newValue, index) => this.at(index)?.patchValue(newValue))
PatchArrayLoop(h, body, value, i) ==
    IF h.err \/ i > Len(value.kv) THEN h
    ELSE PatchArrayLoop(IF i <= Len(h.ctl[body])
                        THEN Call("PatchControl", h, <<h.ctl[body][i].n, value.kv[i].v>>)
                        ELSE h,
                        body, value, i + 1)

\* patchValue without its guard: FormGroup.patchValue of a value without keys
patchValueUnguarded(h, rootGroup, value) ==
    IF ~Truthy(value) \/ ~IsObjectType(value) THEN [h EXCEPT !.err = TRUE] ELSE h

\* patchValue: phase 1, then rootGroup.groupRef.patchValue(value)
patchValue(h, rootGroup, value) ==
    IF ~Truthy(value) \/ ~IsObjectType(value) THEN h
    ELSE LET h1 == Call("prepareStructureForValue", h, <<rootGroup, value>>)
         IN IF h1.err THEN h1
            ELSE PatchGroupLoop(h1, h1.obj[rootGroup].body, value, 1)

\* the value of the control of node n: groupRef.value, arrayRef.value, controlRef.value
ReadControl(h, n) ==
    LET node == h.obj[n]
        cs == IF IsLeafType(node.type) THEN <<>> ELSE h.ctl[node.body]
    IN IF node.type = "group"
       THEN Obj([i \in 1..Len(cs) |-> KV(cs[i].k, ReadControl(h, cs[i].n))])
       ELSE IF node.type = "array"
       THEN Arr([i \in 1..Len(cs) |-> ReadControl(h, cs[i].n)])
       ELSE node.value

(***************************************************************************)
(* this.<method>(args) on heap h: the methods of SchemaFormService, and the *)
(* patchValue of an Angular control.                                       *)
(***************************************************************************)
Call(method, h, a) ==
    CASE method = "schemaToFieldConfig" -> schemaToFieldConfig(h, a[1])
      [] method = "processSchema" -> processSchema(h, a[1], a[2], a[3])
      [] method = "handleAnyOf" -> handleAnyOf(h, a[1], a[2], a[3])
      [] method = "handleOneOf" -> handleOneOf(h, a[1], a[2], a[3])
      [] method = "addGroup" -> addGroup(h, a[1], a[2], a[3], a[4])
      [] method = "addAddProperty" -> addAddProperty(h, a[1])
      [] method = "addField" -> addField(h, a[1], a[2], a[3], a[4], a[5])
      [] method = "addArray" -> addArray(h, a[1], a[2], a[3], a[4])
      [] method = "addArrayItem" -> addArrayItem(h, a[1])
      [] method = "removeGroup" -> removeGroup(h, a[1], a[2])
      [] method = "removeArray" -> removeArray(h, a[1], a[2])
      [] method = "removeField" -> removeField(h, a[1], a[2])
      [] method = "removeArrayItem" -> removeArrayItem(h, a[1], a[2])
      [] method = "cleanupFieldSubscriptions" -> cleanupFieldSubscriptions(h, a[1])
      [] method = "cleanupArraySubscriptions" -> cleanupArraySubscriptions(h, a[1])
      [] method = "cleanupAndRemoveItem" -> cleanupAndRemoveItem(h, a[1], a[2], a[3])
      [] method = "cleanupNestedConditionalSchemas" ->
             cleanupNestedConditionalSchemas(h, a[1])
      [] method = "handleConditionalSchemas" -> handleConditionalSchemas(h, a[1], a[2], a[3])
      [] method = "patchValue" -> patchValue(h, a[1], a[2])
      [] method = "prepareStructureForValue" -> prepareStructureForValue(h, a[1], a[2])
      [] method = "handleIfThenElseForPatch" ->
             handleIfThenElseForPatch(h, a[1], a[2], a[3], a[4])
      [] method = "addAdditionalPropertiesFromValue" ->
             addAdditionalPropertiesFromValue(h, a[1], a[2])
      [] method = "selectOneOfOption" -> selectOneOfOption(h, a[1], a[2], a[3])
      [] method = "selectAnyOfOptions" -> selectAnyOfOptions(h, a[1], a[2], a[3])
      [] method = "PatchControl" -> PatchControl(h, a[1], a[2])

(***************************************************************************)
(* The state machine: one service instance, one form.                      *)
(***************************************************************************)
VARIABLES obj, fields, ctl, cs, req, schemas, subs, act, defs, rnd, gone, err, root, steps, last,
          schemaCache, fetching, fetched, late, calls, validated

\* the fetch side of the service: schemaCache is the set of urls the cache
\* Map holds, fetching the fetch calls in flight by url, fetched the fetches
\* that succeeded by url; (history) late holds the urls fetch was invoked for
\* after a fetch of the url had succeeded, calls counts the getSchema calls
fetchVars == <<schemaCache, fetching, fetched, late, calls>>

treeVars == <<obj, fields, ctl, cs, req, schemas, subs, act, defs, rnd, gone, err, root, steps, last>>

vars == <<obj, fields, ctl, cs, req, schemas, subs, act, defs, rnd, gone, err, root, steps, last,
          schemaCache, fetching, fetched, late, calls, validated>>

\* the heap the operations work on
Heap ==
    [obj |-> obj, fields |-> fields, ctl |-> ctl, cs |-> cs, req |-> req,
     schemas |-> schemas, subs |-> subs, act |-> act, defs |-> defs, err |-> err, rnd |-> rnd,
     gone |-> gone, depth |-> 0, overflow |-> FALSE]

\* the heap an operation returns becomes the state
Commit(h, name, n, value, index) ==
    /\ obj' = h.obj
    /\ fields' = h.fields
    /\ ctl' = h.ctl
    /\ cs' = h.cs
    /\ req' = h.req
    /\ schemas' = h.schemas
    /\ subs' = h.subs
    /\ act' = h.act
    /\ defs' = h.defs
    /\ rnd' = h.rnd
    /\ gone' = h.gone
    \* an exception ends the operation, not the session
    /\ err' = FALSE
    /\ last' = [op |-> name, n |-> n, v |-> value, i |-> index, threw |-> h.err,
                overflow |-> h.overflow]
    /\ UNCHANGED fetchVars
    /\ UNCHANGED validated

RECURSIVE LiveBelow(_, _)
\* the nodes attached to the tree at and below n: what the form renders
LiveBelow(h, n) ==
    {n} \cup (IF IsLeafType(h.obj[n].type) THEN {}
              ELSE UNION {LiveBelow(h, h.fields[h.obj[n].body][i].n) :
                             i \in 1..Len(h.fields[h.obj[n].body])})

Live == IF root = 0 THEN {} ELSE LiveBelow(Heap, root)

\* the values a user gives a control: every trigger value of the field, the
\* options of a selector, and one value that triggers nothing
InputValues(n) ==
    LET node == obj[n]
        s == IF node.schema = "" THEN SD ELSE schemas[node.schema]
    IN IF node.type = "radio" /\ node.schema = ""
       THEN {Num(i - 1) : i \in 1..Len(cs[node.cs])}
       ELSE IF node.type \in {"checkbox", "toggle"} THEN {Bool(TRUE), Bool(FALSE)}
       ELSE IF s.hasEnum
       THEN (IF Len(cs[node.cs]) > 0 THEN Range(s.enum) ELSE {s.enum[1]})
       ELSE IF node.type = "number" THEN {Num(7)}
       ELSE {Str("x")}

Init ==
    /\ obj = <<>>
    /\ fields = <<>>
    /\ ctl = <<>>
    /\ cs = <<>>
    /\ req = ReqInit
    /\ schemas = Schemas
    /\ subs = <<>>
    /\ act = {}
    /\ defs = <<>>
    /\ rnd = [seed |-> 1, n |-> 0]
    /\ gone = {}
    /\ err = FALSE
    /\ root = 0
    /\ steps = 0
    /\ last = [op |-> "init", n |-> 0, v |-> Undef, i |-> 0, threw |-> FALSE,
               overflow |-> FALSE]
    /\ schemaCache = {}
    /\ fetching = [url \in Urls |-> 0]
    /\ fetched = [url \in Urls |-> 0]
    /\ late = {}
    /\ calls = 0
    /\ validated = [built |-> FALSE, schema |-> NumberSchema("number", {}, {}, {}, {}),
                    validators |-> [min |-> {}, max |-> {}], v |-> 0, valid |-> TRUE]

\* the heap of a service before its first call, with the outcome of Math.random
FreshHeap(seed) ==
    [obj |-> <<>>, fields |-> <<>>, ctl |-> <<>>, cs |-> <<>>, req |-> ReqInit,
     schemas |-> schemas, subs |-> <<>>, act |-> {}, defs |-> <<>>, err |-> FALSE,
     rnd |-> [seed |-> seed, n |-> 0], gone |-> {}, depth |-> 0, overflow |-> FALSE]

\* the compile of a document: after dereferenceSchema (whose collectDefs has
\* filled the defsMap) or directly
Compiled(schema, seed, dereferenced) ==
    Call("schemaToFieldConfig",
         IF dereferenced THEN collectDefs(FreshHeap(seed), schema) ELSE FreshHeap(seed),
         <<schema>>)

\* a random source nothing drew from is the same whatever its outcomes
SettleRandom(h) == IF h.rnd.n = 0 THEN [h EXCEPT !.rnd.seed = 1] ELSE h

\* this.groupConfig = this.schemaService.schemaToFieldConfig(schema)
CommitRoot(h, schema) ==
    /\ Commit(SettleRandom(h), "schemaToFieldConfig", Len(obj) + 1, Str(schema), 0)
    /\ root' = IF h.err THEN 0 ELSE Len(obj) + 1

\* schemaToFieldConfig(schema), the first call of a session; the caller has no
\* tree when the call throws
Compile(schema, seed, dereferenced) ==
    /\ root = 0
    /\ last.op = "init"
    /\ CommitRoot(Compiled(schema, seed, dereferenced), schema)
    /\ UNCHANGED steps

\* the user changes the value of a rendered control: control.setValue(value),
\* whose valueChanges notification runs the field's subscription
SetValue(n, value) ==
    /\ steps < MaxSteps
    /\ n \in Live
    /\ IsLeafType(obj[n].type)
    /\ obj[n].type # "add-property"
    /\ value \in InputValues(n)
    /\ value # obj[n].value
    /\ Commit(Call("PatchControl", Heap, <<n, value>>), "setValue", n, value, 0)
    /\ steps' = steps + 1
    /\ UNCHANGED root

\* the add button of a rendered array: addArrayItem(array)
AddArrayItem(a) ==
    /\ steps < MaxSteps
    /\ a \in Live
    /\ obj[a].type = "array"
    /\ Len(fields[obj[a].body]) < MaxItems
    /\ Commit(Call("addArrayItem", Heap, <<a>>), "addArrayItem", a, Undef, 0)
    /\ steps' = steps + 1
    /\ UNCHANGED root

\* removeArrayItem(array, index), by the remove button of a rendered item or
\* with an index that is out of range
RemoveArrayItem(a, index) ==
    /\ steps < MaxSteps
    /\ a \in Live
    /\ obj[a].type = "array"
    /\ index \in -1..Len(fields[obj[a].body])
    /\ Commit(Call("removeArrayItem", Heap, <<a, index>>),
              "removeArrayItem", a, Undef, index)
    /\ steps' = steps + 1
    /\ UNCHANGED root

\* patchValue(rootGroup, value)
PatchValue(value) ==
    /\ steps < MaxSteps
    /\ root # 0
    /\ value \in PatchValues[obj[root].schema] \cup NonObjectValues
    /\ Commit(Call("patchValue", Heap, <<root, value>>), "patchValue", root, value, 0)
    /\ steps' = steps + 1
    /\ UNCHANGED root

Next ==
    \/ \E schema \in RootSchemas : \E seed \in RandSeeds : \E dereferenced \in BOOLEAN :
           Compile(schema, seed, dereferenced)
    \/ \E value \in UNION {PatchValues[s] : s \in RootSchemas} \cup NonObjectValues :
           PatchValue(value)
    \/ \E n \in 1..Len(obj) : \E value \in InputValues(n) : SetValue(n, value)
    \/ \E a \in 1..Len(obj) : AddArrayItem(a)
    \/ \E a \in 1..Len(obj) : \E index \in -1..MaxItems : RemoveArrayItem(a, index)

Spec == Init /\ [][Next]_vars

(***************************************************************************)
(* The fetch side: getSchema is async, so a call is two steps, the call up *)
(* to `await fetch(url)` and the continuation when the fetch settles.      *)
(***************************************************************************)
\* getSchema(url) up to its await: the cached schema when the cache has the
\* url, a fetch otherwise
GetSchema(url) ==
    /\ calls < MaxFetches
    /\ calls' = calls + 1
    /\ IF url \in schemaCache
       THEN UNCHANGED <<fetching, late>>
       ELSE /\ fetching' = [fetching EXCEPT ![url] = @ + 1]
            /\ late' = IF fetched[url] > 0 THEN late \cup {url} ELSE late
    /\ UNCHANGED <<schemaCache, fetched>>
    /\ UNCHANGED treeVars
    /\ UNCHANGED validated

\* the rest of getSchema once the fetch settles: response.json() when the
\* response is ok, null when it is not or the fetch was rejected
FetchSettles(url, outcome) ==
    /\ fetching[url] > 0
    /\ fetching' = [fetching EXCEPT ![url] = @ - 1]
    /\ fetched' = IF outcome = "ok" THEN [fetched EXCEPT ![url] = @ + 1] ELSE fetched
    /\ UNCHANGED <<schemaCache, late, calls>>
    /\ UNCHANGED treeVars
    /\ UNCHANGED validated

FetchNext ==
    \/ \E url \in Urls : GetSchema(url)
    \/ \E url \in Urls : \E outcome \in FetchOutcomes : FetchSettles(url, outcome)

FetchSpec == Init /\ [][FetchNext]_vars

(***************************************************************************)
(* Vocabulary of the properties.                                           *)
(***************************************************************************)
\* the nodes of the tree that are leaves
LiveLeaves == {n \in Live : IsLeafType(obj[n].type)}

\* the group or array of the tree that holds node n (0 for the root)
HolderOf(n) ==
    IF \E g \in Live : ~IsLeafType(obj[g].type) /\ n \in Range([i \in 1..Len(fields[obj[g].body]) |-> fields[obj[g].body][i].n])
    THEN CHOOSE g \in Live : ~IsLeafType(obj[g].type) /\ n \in Range([i \in 1..Len(fields[obj[g].body]) |-> fields[obj[g].body][i].n])
    ELSE 0

\* the keys a branch schema declares
BranchKeys(schema) ==
    IF schema = "" THEN {}
    ELSE {schemas[schema].props[i].k : i \in 1..Len(schemas[schema].props)}

\* the keys of the fields of the group that holds n
SiblingKeys(n) ==
    IF HolderOf(n) = 0 \/ obj[HolderOf(n)].type # "group" THEN {}
    ELSE Range(Keys(fields[obj[HolderOf(n)].body]))

NonTrigger(n) ==
    LET free == {v \in InputValues(n) :
                    \A i \in 1..Len(cs[obj[n].cs]) : ~StrictEq(v, cs[obj[n].cs][i].tv)}
    IN IF free = {} THEN Null ELSE CHOOSE v \in free : TRUE

\* no branch of trigger field n is materialized and its value triggers none
AtRest(n) ==
    \A i \in 1..Len(cs[obj[n].cs]) :
        /\ cs[obj[n].cs][i].added = <<>>
        /\ ~StrictEq(obj[n].value, cs[obj[n].cs][i].tv)

\* the heap after the control of n is given value a and then value b
AfterTwoValues(n, a, b) ==
    Call("PatchControl", Call("PatchControl", Heap, <<n, a>>), <<n, b>>)

\* C2: for every observed trigger field at rest and every branch on it, setting
\* the branch's triggerValue and then a non-trigger value leaves the fields of
\* the holding group as they were (the same keys bound to the same nodes) and
\* every descriptor of the field with empty addedKeys
C2_Reversibility ==
    \A n \in LiveLeaves :
        (n \in act /\ AtRest(n) /\ HolderOf(n) # 0)
        => \A i \in 1..Len(cs[obj[n].cs]) :
               cs[obj[n].cs][i].tv.t # "undefined"
               => LET h2 == AfterTwoValues(n, cs[obj[n].cs][i].tv, NonTrigger(n))
                      body == obj[HolderOf(n)].body
                  IN /\ Range(h2.fields[body]) = Range(fields[body])
                     /\ \A j \in 1..Len(h2.cs[obj[n].cs]) :
                            h2.cs[obj[n].cs][j].added = <<>>

\* C3: every subscription that has not been unsubscribed watches the control
\* of a node that is still in the tree
C3_NoLeakedObservers == act \subseteq Live

\* node m was created by a materialization run for trigger field n: its parent
\* is a spread copy that carries n's uniqueKey
CreatedFor(m, n) ==
    /\ obj[m].parent # 0
    /\ obj[obj[m].parent].copy
    /\ obj[obj[m].parent].uniqueKey = obj[n].uniqueKey

\* the keys of the holding group that descriptor d of trigger field n is
\* responsible for: the keys of its schema bound to nodes that its current
\* materialization created
Responsible(n, d) ==
    IF d.added = <<>> /\ ~StrictEq(obj[n].value, d.tv) THEN {}
    ELSE {k \in BranchKeys(d.schema) \cap SiblingKeys(n) :
             CreatedFor(Lookup(fields[obj[HolderOf(n)].body], k), n)}

\* C4: the addedKeys of every descriptor of every trigger field of the tree are
\* exactly the keys the descriptor is responsible for
C4_AddedKeysExact ==
    \A n \in LiveLeaves :
        \A i \in 1..Len(cs[obj[n].cs]) :
            Range(cs[obj[n].cs][i].added) = Responsible(n, cs[obj[n].cs][i])

RECURSIVE SameValue(_, _)
\* deep equality of two JSON values; the order of an object's keys does not count
SameValue(a, b) ==
    IF a.t = "object" /\ b.t = "object"
    THEN /\ Range(ObjectKeys(a)) = Range(ObjectKeys(b))
         /\ \A k \in Range(ObjectKeys(a)) : SameValue(Get(a, k), Get(b, k))
    ELSE IF a.t = "array" /\ b.t = "array"
    THEN /\ Len(a.kv) = Len(b.kv)
         /\ \A i \in 1..Len(a.kv) : SameValue(a.kv[i].v, b.kv[i].v)
    ELSE a = b

\* rootGroup.groupRef.value
ReadRoot == ReadControl(Heap, root)

\* C5: when a value is patched into a freshly compiled tree, the value read
\* from the root afterwards is the patched value
C5_RoundTrip ==
    (last.op = "patchValue" /\ steps = 1) => SameValue(ReadRoot, last.v)

RECURSIVE ValueAt(_)
\* the part of the value last patched that belongs to node n of the tree
ValueAt(n) ==
    IF n = root THEN last.v
    ELSE IF HolderOf(n) = 0 THEN Undef
    ELSE IF obj[HolderOf(n)].type = "array"
    THEN At(ValueAt(HolderOf(n)),
            (CHOOSE i \in 1..Len(fields[obj[HolderOf(n)].body]) :
                 fields[obj[HolderOf(n)].body][i].n = n) - 1)
    ELSE Get(ValueAt(HolderOf(n)), obj[n].key)

\* the radio of a oneOf, the checkbox of an anyOf
IsOneOfRadio(n) == obj[n].type = "radio" /\ EndsWith(obj[n].key, oneOfKeySegment)

IsAnyOfCheckbox(n) == obj[n].type = "checkbox" /\ Includes(obj[n].key, anyOfKeySegment)

\* branch d of selector n is materialized in the group that holds n
Materialized(n, d) == d.added # <<>> /\ BranchKeys(d.schema) \subseteq SiblingKeys(n)

\* the branches of oneOf radio r, by place in the schema's oneOf list (from 0),
\* that match value v
MatchingBranches(r, v) ==
    {k \in 0..(Len(cs[obj[r].cs]) - 1) :
        \E i \in 1..Len(cs[obj[r].cs]) :
            /\ cs[obj[r].cs][i].tv = Num(k)
            /\ valueMatchesSchema(Heap, v, cs[obj[r].cs][i].schema)}

\* C6: after every patchValue, in every oneOf wrapper whose part of the value
\* matches some branch, the radio holds the place of the first matching branch
\* of the schema's oneOf list and that branch is the one materialized
C6_PatchSelectsFirstMatch ==
    last.op = "patchValue"
    => \A r \in LiveLeaves :
           (IsOneOfRadio(r) /\ MatchingBranches(r, ValueAt(HolderOf(r))) # {})
           => LET matching == MatchingBranches(r, ValueAt(HolderOf(r)))
                  first == CHOOSE k \in matching : \A j \in matching : k <= j
              IN /\ obj[r].value = Num(first)
                 /\ \A i \in 1..Len(cs[obj[r].cs]) :
                        Materialized(r, cs[obj[r].cs][i])
                        <=> cs[obj[r].cs][i].tv = Num(first)

\* the branch of anyOf checkbox c matches the part of the value last patched
\* that belongs to the wrapper
BranchMatches(c) ==
    /\ Len(cs[obj[c].cs]) > 0
    /\ valueMatchesSchema(Heap, ValueAt(HolderOf(c)), cs[obj[c].cs][1].schema)

Checked(c) == obj[c].value = Bool(TRUE)

\* C7 as stated: after every patchValue, an anyOf checkbox is checked, and its
\* branch materialized, exactly when its branch matches the value
C7_PatchChecksExactlyMatching ==
    last.op = "patchValue"
    => \A c \in LiveLeaves :
           IsAnyOfCheckbox(c)
           => /\ Checked(c) <=> BranchMatches(c)
              /\ Materialized(c, cs[obj[c].cs][1]) <=> BranchMatches(c)

\* C7 amended: a patchValue step leaves an anyOf checkbox checked exactly when it
\* was checked before the step or its branch matches the value, and its branch
\* is materialized exactly when it is checked
C7_PatchChecksMatchingKeepsChecked ==
    [][last'.op = "patchValue" /\ steps' = steps + 1
       => \A c \in LiveLeaves :
              IsAnyOfCheckbox(c)
              => /\ Checked(c)' <=> (Checked(c) \/ BranchMatches(c)')
                 /\ Materialized(c, cs[obj[c].cs][1])' <=> Checked(c)']_vars

\* a patch that checked one checkbox and left another unchecked
C7_Witness ==
    /\ last.op = "patchValue"
    /\ \E c \in LiveLeaves : IsAnyOfCheckbox(c) /\ Checked(c) /\ BranchMatches(c)
                              /\ Materialized(c, cs[obj[c].cs][1])
    /\ \E c \in LiveLeaves : IsAnyOfCheckbox(c) /\ ~Checked(c) /\ ~BranchMatches(c)

\* the `required` list of branch schema
RequiredOf(schema) ==
    IF schemas[schema].required = 0 THEN {} ELSE Range(req[schemas[schema].required])

\* C8: in a freshly compiled tree, once a branch of a oneOf is selected, a field
\* the branch materialized is marked required exactly when the branch's own
\* `required` list names it
C8_SelectedBranchRequired ==
    (steps = 1 /\ last.op = "setValue" /\ IsOneOfRadio(last.n))
    => \A i \in 1..Len(cs[obj[last.n].cs]) :
           LET d == cs[obj[last.n].cs][i]
           IN d.tv = last.v
              => /\ Range(d.added) = BranchKeys(d.schema)
                 /\ \A k \in Range(d.added) :
                        obj[Lookup(fields[obj[HolderOf(last.n)].body], k)].required
                        <=> k \in RequiredOf(d.schema)

\* branch 0 of oneOfSchema selected in a fresh tree: cardNumber, cvv, expiryDate
C8_Witness ==
    /\ steps = 1 /\ last.op = "setValue" /\ IsOneOfRadio(last.n) /\ last.v = Num(0)
    /\ {"cardNumber", "cvv", "expiryDate"} \subseteq SiblingKeys(last.n)
    /\ obj[Lookup(fields[obj[HolderOf(last.n)].body], "cardNumber")].required
    /\ obj[Lookup(fields[obj[HolderOf(last.n)].body], "cvv")].required
    /\ ~obj[Lookup(fields[obj[HolderOf(last.n)].body], "expiryDate")].required

\* group.requiredFields of a group of the tree
RequiredFields(g) == IF obj[g].req = 0 THEN {} ELSE Range(req[obj[g].req])

\* C9: a leaf of the tree held by a group is marked required exactly when its
\* key is in the group's requiredFields
C9_RequiredIffInRequiredFields ==
    \A n \in LiveLeaves :
        (HolderOf(n) # 0 /\ obj[HolderOf(n)].type = "group")
        => (obj[n].required <=> obj[n].key \in RequiredFields(HolderOf(n)))

\* C10: no node is created with the uniqueKey of a node removed before
C10_UniqueKeyNeverReused ==
    \A n \in 1..Len(obj) : ~obj[n].copy => ~obj[n].reuses

RECURSIVE TreeShape(_, _)
\* the key and kind of a node and, in order, of everything below it
TreeShape(h, n) ==
    [key |-> h.obj[n].key, type |-> h.obj[n].type,
     below |-> IF IsLeafType(h.obj[n].type) THEN <<>>
               ELSE [i \in 1..Len(h.fields[h.obj[n].body]) |->
                        TreeShape(h, h.fields[h.obj[n].body][i].n)]]

\* C11: the tree a session has compiled has the keys and kinds, at every level,
\* of the tree any other compile of the same document into a fresh root builds
C11_CompileIdempotent ==
    (root # 0 /\ last.op = "schemaToFieldConfig")
    => \A seed \in RandSeeds :
           \E dereferenced \in BOOLEAN :
               TreeShape(Compiled(obj[root].schema, seed, dereferenced), 1)
               = TreeShape(Heap, root)

\* C12: no operation exhausts the call stack: a chain of $ref that leads back
\* to itself is cut, and the compile returns
C12_RefCycleTerminates == ~last.overflow

\* C13: no operation throws on input that is malformed but survivable: every
\* call returns normally (the exhausted stack of an endless $ref chain apart)
C13_NoThrowOnMalformedInput == last.threw => last.overflow

\* the properties of the schema of group g whose $ref names no definition
UnresolvedProperties(g) ==
    IF obj[g].schema = "" THEN {}
    ELSE {p \in Range(schemas[obj[g].schema].props) :
             schemas[p.s].ref # "" /\ resolveRef(Heap, schemas[p.s].ref) = ""}

\* C14: a property whose $ref cannot be resolved gets no node in its group,
\* and every other property of the group's schema has one
C14_UnresolvedRefSkipped ==
    (root # 0 /\ last.op = "schemaToFieldConfig")
    => \A g \in Live :
           (obj[g].type = "group" /\ obj[g].schema # "")
           => \A p \in Range(schemas[obj[g].schema].props) :
                  HasKey(fields[obj[g].body], p.k) <=> p \notin UnresolvedProperties(g)

RECURSIVE Declared(_, _)
\* the definitions a document declares, at any depth: [k, s, under], under the
\* keyword ($defs or definitions) that holds key k
Declared(h, schema) ==
    LET s == h.schemas[schema]
    IN {[k |-> s.defs[i].k, s |-> s.defs[i].s, under |-> "$defs"] : i \in 1..Len(s.defs)}
       \cup {[k |-> s.definitions[i].k, s |-> s.definitions[i].s, under |-> "definitions"] :
                 i \in 1..Len(s.definitions)}
       \cup UNION {Declared(h, sub) : sub \in Range(SubSchemas(h, schema))}

\* C15: once a document is compiled, the local pointer to each definition it
\* declares resolves to that definition
C15_LocalPointersResolve ==
    (root # 0 /\ last.op = "schemaToFieldConfig")
    => \A d \in Declared(Heap, obj[root].schema) :
           resolveRef(Heap, "#/" \o d.under \o "/" \o d.k) = d.s

\* C16: fetch is never invoked for a url after a fetch of that url succeeded
C16_FetchedOncePerUrl == late = {}

\* the pairs <<then, else>> of descriptors an if/then/else hung on field n
ThenElsePairs(n) ==
    {<<cs[obj[n].cs][i], cs[obj[n].cs][j]>> : i \in 1..Len(cs[obj[n].cs]), j \in 1..Len(cs[obj[n].cs])}
    \ {p \in {<<cs[obj[n].cs][i], cs[obj[n].cs][j]>> : i \in 1..Len(cs[obj[n].cs]), j \in 1..Len(cs[obj[n].cs])} :
          \/ p[1].tv.t = "undefined"
          \/ p[2].tv.t # "undefined"
          \/ p[2].rtv # p[1].tv}

\* C17: after every value change, for every field an if/then/else with an
\* else is hung on: when the value is the one the condition asks for, the
\* group that holds the field has the then-schema's keys and none of the
\* else-schema's; otherwise it has the else-schema's keys and none of the
\* then-schema's
C17_ThenOrElsePresent ==
    (last.op \in {"setValue", "patchValue"} /\ ~last.threw)
    => \A n \in LiveLeaves :
           \A p \in ThenElsePairs(n) :
               IF StrictEq(obj[n].value, p[1].tv)
               THEN /\ BranchKeys(p[1].schema) \subseteq SiblingKeys(n)
                    /\ BranchKeys(p[2].schema) \cap SiblingKeys(n) = {}
               ELSE /\ BranchKeys(p[2].schema) \subseteq SiblingKeys(n)
                    /\ BranchKeys(p[1].schema) \cap SiblingKeys(n) = {}

RECURSIVE stripUnderscoreFields(_)
\* stripUnderscoreFields: the value without the entries whose key starts with
\* "_", at every depth
stripUnderscoreFields(v) ==
    IF v.t = "array"
    THEN [v EXCEPT !.kv = [i \in 1..Len(v.kv) |->
                              [v.kv[i] EXCEPT !.v = stripUnderscoreFields(@)]]]
    ELSE IF v.t = "object"
    THEN LET Kept(e) == ~StartsWith(e.k, "_")
             kept == SelectSeq(v.kv, Kept)
         IN [v EXCEPT !.kv = [i \in 1..Len(kept) |->
                                 [kept[i] EXCEPT !.v = stripUnderscoreFields(@)]]]
    ELSE v

RECURSIVE PropertyNames(_, _)
\* the property names the document declares, at every depth
PropertyNames(h, schema) ==
    {h.schemas[schema].props[i].k : i \in 1..Len(h.schemas[schema].props)}
    \cup UNION {PropertyNames(h, sub) : sub \in Range(SubSchemas(h, schema))}

\* the key of a synthesized selector: a oneOf radio, an anyOf checkbox, the
\* add-property adder
IsSelectorKey(k) ==
    \/ EndsWith(k, oneOfKeySegment)
    \/ Includes(k, anyOfKeySegment)
    \/ k = "_add_property"

\* the keys of the part of the read-back value that belongs to group g
ReadBackKeys(g) == Range(ObjectKeys(stripUnderscoreFields(ReadControl(Heap, g))))

\* C18: in every state, no key of the value read back from the root is the
\* key of a synthesized selector, and the key of a synthesized wrapper group
\* is a property name of the schema
C18_ReadBackHasNoSynthesizedKeys ==
    root # 0
    => \A g \in Live :
           obj[g].type = "group"
           => \A k \in ReadBackKeys(g) :
                  /\ ~IsSelectorKey(k)
                  /\ (\E i \in 1..Len(fields[obj[g].body]) :
                          /\ fields[obj[g].body][i].k = k
                          /\ obj[fields[obj[g].body][i].n].schema = "wrapperGroupSchema")
                     => k \in PropertyNames(Heap, obj[root].schema)

\* the groups of the tree whose schema allows additionalProperties
OpenGroups ==
    {g \in Live : obj[g].type = "group" /\ obj[g].schema # ""
                  /\ schemas[obj[g].schema].additionalProperties}

\* C19: a patchValue that returns gives every group that was in the tree and
\* whose schema allows additionalProperties, the root included, a leaf field
\* for each key of its part of the value that had no field and holds a scalar
\* (a number field for a number, a text field otherwise), no field for a key
\* that starts with "_" or holds an array or object, and leaves the fields the
\* group had bound to the nodes they were bound to
C19_ExtrasGetLeafFields ==
    [][(last'.op = "patchValue" /\ ~last'.threw)
       => \A g \in OpenGroups \cap Live' :
              LET v == ValueAt(g)'
                  before == fields[obj[g].body]
                  after == fields'[obj[g].body]
              IN v.t = "object"
                 => /\ \A i \in 1..Len(v.kv) :
                           ~HasKey(before, v.kv[i].k)
                           => IF StartsWith(v.kv[i].k, "_") \/ IsObjectType(v.kv[i].v)
                              THEN ~HasKey(after, v.kv[i].k)
                              ELSE /\ HasKey(after, v.kv[i].k)
                                   /\ obj'[Lookup(after, v.kv[i].k)].type
                                          = (IF v.kv[i].v.t = "number" THEN "number" ELSE "text")
                    /\ \A i \in 1..Len(before) :
                           Lookup(after, before[i].k) = before[i].n]_vars

\* the arrays of the tree whose schema has an item template
TemplatedArrays ==
    {a \in Live : obj[a].type = "array" /\ obj[a].schema # ""
                  /\ schemas[obj[a].schema].items # ""}

\* C20: right after a schema is compiled, every array of the tree whose
\* schema has an item template holds as many items as the schema's minItems,
\* none when the schema has no minItems, and its control array holds as many
\* controls
C20_MinItemsPrePopulated ==
    (last.op = "schemaToFieldConfig" /\ ~last.threw)
    => \A a \in TemplatedArrays :
           /\ Len(fields[obj[a].body])
                 = (IF schemas[obj[a].schema].minItems > 0
                    THEN schemas[obj[a].schema].minItems ELSE 0)
           /\ Len(ctl[obj[a].body]) = Len(fields[obj[a].body])

\* a compiled tree with an array of minItems 2 that holds two items
C20_Witness ==
    /\ last.op = "schemaToFieldConfig"
    /\ ~last.threw
    /\ \E a \in TemplatedArrays :
           /\ schemas[obj[a].schema].minItems = 2
           /\ Len(fields[obj[a].body]) = 2
           /\ Len(ctl[obj[a].body]) = 2

\* the arrays of the tree
LiveArrays == {a \in Live : obj[a].type = "array"}

\* C21: in every state, for every array of the tree whose schema has
\* maxItems, canAddItem() is false exactly when the array holds maxItems items
C21_CanAddFalseIffFull ==
    \A a \in LiveArrays :
        (obj[a].schema # "" /\ schemas[obj[a].schema].maxItems # -1)
        => (~canAddItem(Heap, a)
            <=> Len(fields[obj[a].body]) = schemas[obj[a].schema].maxItems)

\* C22: in every state, after any adds and removes, for every array of the
\* tree canRemoveItem() is true exactly when its schema has no minItems or
\* the array holds more than minItems items, and canAddItem() is true exactly
\* when its schema has no maxItems or the array holds fewer than maxItems
\* items
C22_PredicatesFollowLength ==
    \A a \in LiveArrays :
        obj[a].schema # ""
        => /\ canRemoveItem(Heap, a)
                <=> (\/ schemas[obj[a].schema].minItems = -1
                     \/ Len(fields[obj[a].body]) > schemas[obj[a].schema].minItems)
           /\ canAddItem(Heap, a)
                <=> (\/ schemas[obj[a].schema].maxItems = -1
                     \/ Len(fields[obj[a].body]) < schemas[obj[a].schema].maxItems)

\* an array with minItems and maxItems that grew to hold more than minItems
\* items and was then brought back to minItems by a removal
C22_Witness ==
    /\ last.op = "removeArrayItem"
    /\ last.n \in LiveArrays
    /\ \E n \in 1..Len(obj) : n \notin Live /\ obj[n].parent = last.n
    /\ obj[last.n].minItems # -1
    /\ obj[last.n].maxItems # -1
    /\ Len(fields[obj[last.n].body]) = obj[last.n].minItems
    /\ ~canRemoveItem(Heap, last.n)
    /\ canAddItem(Heap, last.n)

\* C23: a removeArrayItem whose index is below 0 or not below the number of
\* items raises nothing and leaves the items of every array, the controls of
\* every control array and the subscriptions as they were
C23_OutOfRangeRemovalNoOp ==
    [][(/\ last'.op = "removeArrayItem"
        /\ \/ last'.i < 0
           \/ last'.i >= Len(fields[obj[last'.n].body]))
       => /\ ~last'.threw
          /\ fields' = fields
          /\ ctl' = ctl
          /\ act' = act
          /\ subs' = subs
          /\ obj' = obj /\ cs' = cs]_vars

\* removeArrayItem was called with index -1 on an array that holds items
C23_Witness ==
    /\ last.op = "removeArrayItem"
    /\ last.i = -1
    /\ last.n \in LiveArrays
    /\ fields[obj[last.n].body] # <<>>

KindByRule(s) ==
    IF s.hasEnum
    THEN IF s.format = "radio" THEN "radio"
         ELSE IF s.format = "select" THEN "select"
         ELSE IF Len(s.enum) >= 5 THEN "select" ELSE "radio"
    ELSE IF s.const.t # "undefined" THEN "hidden"
    ELSE IF s.type = "boolean"
         THEN (IF s.format = "toggle" THEN "toggle" ELSE "checkbox")
    ELSE IF s.type \in {"number", "integer"} THEN "number"
    ELSE IF s.format = "textarea" THEN "textarea" ELSE "text"

\* C25: in every state, every leaf of the tree that was built from a schema
\* has the kind the selection rule gives that schema
C25_LeafKindFollowsRule ==
    \A n \in LiveLeaves :
        obj[n].schema # "" => obj[n].type = KindByRule(schemas[obj[n].schema])

\* the service after schemaToFieldConfig(prior) and then, with the same
\* outcomes of Math.random(), schemaToFieldConfig(schema)
CompiledAfter(prior, schema, seed) ==
    Call("schemaToFieldConfig",
         [Call("schemaToFieldConfig", FreshHeap(seed), <<prior>>) EXCEPT
             !.rnd = [seed |-> seed, n |-> 0]],
         <<schema>>)

\* the root the last schemaToFieldConfig of heap h built
LastRoot(h) == CHOOSE n \in 1..Len(h.obj) :
                   /\ h.obj[n].parent = 0
                   /\ \A m \in 1..Len(h.obj) : h.obj[m].parent = 0 => m <= n

\* C26: the tree a service instance compiles from a document is the tree a
\* fresh instance compiles from it, whatever document the instance compiled
\* before
C26_DefinitionsScopedToSchema ==
    (root # 0 /\ last.op = "schemaToFieldConfig")
    => \A prior \in RootSchemas :
           Call("schemaToFieldConfig", FreshHeap(rnd.seed), <<prior>>).err
           \/ LET h == CompiledAfter(prior, obj[root].schema, rnd.seed)
              IN /\ ~h.err
                 /\ TreeShape(h, LastRoot(h))
                    = TreeShape(Compiled(obj[root].schema, rnd.seed, FALSE), 1)

\* C27: when a value change turns a trigger field from the value of one
\* materialized descriptor to the triggerValue of another of its descriptors,
\* every key both branches declare is afterwards a field of the holding
\* group, is in the addedKeys of the descriptor now active and not in those
\* of the descriptor reverted
C27_RemovalsBeforeAdditions ==
    [][(last'.op \in {"setValue", "patchValue"} /\ ~last'.threw)
       => \A n \in LiveLeaves \cap LiveLeaves' :
              \A i, j \in 1..Len(cs[obj[n].cs]) :
                  LET d1 == cs[obj[n].cs][i]
                      d2 == cs[obj[n].cs][j]
                      after == cs'[obj[n].cs]
                      e1 == after[CHOOSE k \in 1..Len(after) : after[k].schema = d1.schema]
                      e2 == after[CHOOSE k \in 1..Len(after) : after[k].schema = d2.schema]
                  IN (/\ i # j
                      /\ d1.schema # d2.schema
                      /\ n \in act
                      /\ d1.tv.t # "undefined" /\ d2.tv.t # "undefined"
                      /\ d1.added # <<>> /\ StrictEq(obj[n].value, d1.tv)
                      /\ d2.added = <<>>
                      /\ StrictEq(obj'[n].value, d2.tv))
                     => \A K \in BranchKeys(d1.schema) \cap BranchKeys(d2.schema) :
                            /\ K \in SiblingKeys(n)'
                            /\ K \in Range(e2.added)
                            /\ K \notin Range(e1.added)]_vars

\* a trigger field whose active descriptor has added a key that another of
\* its descriptors, now reverted, had added before: the node the reverted
\* descriptor had built for the key is no longer in the tree
C27_Witness ==
    /\ last.op \in {"setValue", "patchValue"}
    /\ \E n \in LiveLeaves :
           \E i, j \in 1..Len(cs[obj[n].cs]) :
               /\ i # j
               /\ StrictEq(obj[n].value, cs[obj[n].cs][j].tv)
               /\ cs[obj[n].cs][i].added = <<>>
               /\ \E K \in BranchKeys(cs[obj[n].cs][i].schema) \cap BranchKeys(cs[obj[n].cs][j].schema) :
                      /\ K \in Range(cs[obj[n].cs][j].added)
                      /\ K \in SiblingKeys(n)
                      /\ \E m \in 1..Len(obj) :
                             /\ m \notin Live
                             /\ obj[m].key = K
                             /\ IsLeafType(obj[m].type)

\* the nodes of the tree that the materialization of descriptor d of trigger
\* field n built in the group that holds n
Materializes(n, d) ==
    {m \in Live : /\ CreatedFor(m, n)
                  /\ HolderOf(m) = HolderOf(n)
                  /\ obj[m].key \in BranchKeys(d.schema)}

RECURSIVE TornDownWith(_)
\* the nodes S, everything below them, and everything the descriptors of
\* those nodes have materialized, transitively
TornDownWith(S) ==
    LET more == S \cup UNION {LiveBelow(Heap, m) : m \in S}
                  \cup {m \in Live : \E x \in S : IsLeafType(obj[x].type) /\ CreatedFor(m, x)}
    IN IF more = S THEN S ELSE TornDownWith(more)

\* C28: when a step reverts a descriptor, every node the descriptor had
\* materialized, everything below those nodes and everything their
\* descriptors had materialized in turn is out of the tree afterwards, and
\* the addedKeys of all descriptors of those nodes are empty
C28_RevertTearsDownTransitively ==
    [][~last'.threw
       => \A n \in LiveLeaves \cap LiveLeaves' :
              \A i \in 1..Len(cs[obj[n].cs]) :
                  LET d == cs[obj[n].cs][i]
                      after == cs'[obj[n].cs]
                  IN (/\ d.added # <<>>
                      /\ \E k \in 1..Len(after) :
                             after[k].schema = d.schema /\ after[k].added = <<>>)
                     => \A m \in TornDownWith(Materializes(n, d)) :
                            /\ m \notin Live'
                            /\ \A k \in 1..Len(cs'[obj[m].cs]) :
                                   cs'[obj[m].cs][k].added = <<>>]_vars

\* the `required` list a schema declares, as the document was written
DeclaredRequired(schema) ==
    IF schema = "" \/ schemas[schema].required = 0 THEN {}
    ELSE Range(ReqInit[schemas[schema].required])

\* the schemas of the branches that are materialized in group g
MaterializedIn(g) ==
    UNION {{cs[obj[n].cs][i].schema :
               i \in {j \in 1..Len(cs[obj[n].cs]) : cs[obj[n].cs][j].added # <<>>}} :
           n \in {m \in LiveLeaves : HolderOf(m) = g}}

\* C29: in every state, the requiredFields of every group of the tree are the
\* names its own schema requires together with the names required by the
\* branches that are materialized in it
C29_RequiredFieldsFollowBranches ==
    \A g \in Live :
        obj[g].type = "group"
        => RequiredFields(g)
           = DeclaredRequired(obj[g].schema)
             \cup UNION {DeclaredRequired(b) : b \in MaterializedIn(g)}

\* C30: after a patchValue that returns, every array of the tree whose part
\* of the patched value is an array holds at least as many items as that
\* array has elements
C30_ArraysGrownToValue ==
    (last.op = "patchValue" /\ ~last.threw)
    => \A a \in LiveArrays :
           ValueAt(a).t = "array" => Len(fields[obj[a].body]) >= Len(ValueAt(a).kv)

\* C31: a patchValue that returns leaves in the tree exactly the nodes its
\* first phase (prepareStructureForValue) leaves there: the bulk assignment
\* of the second phase adds and removes none
C31_NoStructureChangeInPhaseTwo ==
    [][(last'.op = "patchValue" /\ ~last'.threw /\ IsObjectType(last'.v))
       => LiveBelow(Call("prepareStructureForValue", Heap, <<root, last'.v>>), root)
          = Live']_vars

\* the leaves a step destroys through cleanupAndRemoveItem: added keys of a
\* descriptor of a leaf of the same group that are in the tree before the step
\* and out of it afterwards
DestroyedAddedKeys ==
    {n \in LiveLeaves \ Live' :
        \E t \in LiveLeaves : CreatedFor(n, t) /\ HolderOf(n) = HolderOf(t)}

\* C32: when a step destroys a node whose descriptors have materialized nodes,
\* the node's observer is released before those nodes are torn down: in the
\* heap the first statement of cleanupAndRemoveItem leaves, where the
\* materialized nodes are out of the tree, the node has no active observer
C32_ObserverReleasedFirst ==
    [][(last'.op = "setValue" /\ ~last'.threw)
       => \A n \in DestroyedAddedKeys :
              \A i \in 1..Len(cs[obj[n].cs]) :
                  LET d == cs[obj[n].cs][i]
                      h1 == Call("cleanupNestedConditionalSchemas", Heap, <<n>>)
                  IN (/\ Materializes(n, d) # {}
                      /\ Materializes(n, d) \cap LiveBelow(h1, root) = {})
                     => n \notin h1.act]_vars

RECURSIVE IfSites(_, _)
\* a schema and the allOf sub-schemas below it that processSchema compiles
\* into the same group, each with the schema that encloses it
IfSites(schema, encl) ==
    {[s |-> schema, encl |-> encl]}
    \cup UNION {IfSites(sub, schema) :
                   sub \in {a \in Range(schemas[schema].allOf) : schemas[a].ref = ""}}

\* the names a schema's properties keyword declares
PropertyKeys(schema) ==
    IF schema = "" THEN {}
    ELSE {schemas[schema].props[i].k : i \in 1..Len(schemas[schema].props)}

\* the properties an `if` of the site can name: those of its own schema, of
\* its allOf sub-schemas and of the schema that encloses it
NamedKeys(site) ==
    PropertyKeys(site.s) \cup PropertyKeys(site.encl)
    \cup UNION {PropertyKeys(a) : a \in Range(schemas[site.s].allOf)}

\* the node of the root group for key, 0 when there is none
RootField(key) == Lookup(fields[obj[root].body], key)

\* C33: once a document is compiled, for every `if` with a `then` in the root
\* schema or in an allOf sub-schema below it that names a property declared
\* in the same schema, in one of its allOf sub-schemas or in the enclosing
\* schema, the field of that property exists and carries the descriptor of
\* the `then` branch with the `if` constant as trigger value
C33_IfFindsDeclaredProperty ==
    (root # 0 /\ last.op = "schemaToFieldConfig" /\ ~last.threw)
    => \A site \in IfSites(obj[root].schema, "") :
           LET s == schemas[site.s]
           IN (s.hasIf /\ s.then # "")
              => \A i \in 1..Len(s.ifProps) :
                     s.ifProps[i].k \in NamedKeys(site)
                     => /\ RootField(s.ifProps[i].k) # 0
                        /\ \E j \in 1..Len(cs[obj[RootField(s.ifProps[i].k)].cs]) :
                               LET d == cs[obj[RootField(s.ifProps[i].k)].cs][j]
                               IN d.schema = s.then /\ d.tv = s.ifProps[i].c

\* a document is compiled whose `if` names a property that one of the
\* schema's allOf sub-schemas declares, and the descriptor is on its field
C33_Witness ==
    /\ root # 0 /\ last.op = "schemaToFieldConfig" /\ ~last.threw
    /\ LET s == schemas[obj[root].schema]
       IN /\ s.hasIf /\ s.then # ""
          /\ \E i \in 1..Len(s.ifProps) :
                 /\ s.ifProps[i].k \notin PropertyKeys(obj[root].schema)
                 /\ \E a \in Range(s.allOf) : s.ifProps[i].k \in PropertyKeys(a)
                 /\ RootField(s.ifProps[i].k) # 0
                 /\ Len(cs[obj[RootField(s.ifProps[i].k)].cs]) > 0

(***************************************************************************)
(* The validators of a number field: buildValidators is called with a      *)
(* schema and the control built from its result is given a value.          *)
(***************************************************************************)
NumberTypes == {"integer", "number"}

\* absent, or one value
LowerBounds == {{}, {0}, {1}}

UpperBounds == {{}, {3}, {4}}

NumberSchemas ==
    {NumberSchema(type, minimum, maximum, exclusiveMinimum, exclusiveMaximum) :
        type \in NumberTypes, minimum \in {{}, {1}}, maximum \in {{}, {3}},
        exclusiveMinimum \in LowerBounds, exclusiveMaximum \in UpperBounds}

\* control values in halves: -0.5, 0, 0.5, ..., 4.5
ControlValues == -1..9

BuildValidators(schema, v) ==
    /\ validated' = [built |-> TRUE, schema |-> schema,
                     validators |-> numberValidators(schema), v |-> v,
                     valid |-> Valid(numberValidators(schema), v)]
    /\ UNCHANGED treeVars
    /\ UNCHANGED fetchVars

ValidNext == \E schema \in NumberSchemas : \E v \in ControlValues : BuildValidators(schema, v)

ValidSpec == Init /\ [][ValidNext]_vars

\* v, in halves, is within the bounds the schema states: at least minimum,
\* at most maximum, above exclusiveMinimum and below exclusiveMaximum
WithinBounds(schema, v) ==
    /\ \A b \in schema.minimum : v >= 2 * b
    /\ \A b \in schema.maximum : v <= 2 * b
    /\ \A n \in schema.exclusiveMinimum : v > 2 * n
    /\ \A m \in schema.exclusiveMaximum : v < 2 * m

\* C34: the validators of a number field enforce exclusiveMinimum n and
\* exclusiveMaximum m as the inclusive bounds n + 1 and m - 1 for an integer
\* field, where an integer value is accepted exactly when n < v < m and the
\* inclusive bounds hold; for a field of type number, which has no integer
\* steps, the bounds are not offset: a value is accepted exactly when it is
\* within the bounds the schema states
C34_ExclusiveBoundsOffsetForIntegers ==
    validated.built
    => LET s == validated.schema
       IN /\ s.type = "integer"
             => /\ \A n \in s.exclusiveMinimum : n + 1 \in validated.validators.min
                /\ \A m \in s.exclusiveMaximum : m - 1 \in validated.validators.max
                /\ validated.v % 2 = 0
                   => (validated.valid <=> WithinBounds(s, validated.v))
          /\ s.type = "number"
             => (validated.valid <=> WithinBounds(s, validated.v))

\* C35: in every state, the nodes of the tree have pairwise different
\* uniqueKeys
C35_LiveUniqueKeysDistinct ==
    \A n \in Live : \A m \in Live : obj[n].uniqueKey = obj[m].uniqueKey => n = m

\* C36: after addArrayItem and removeArrayItem calls, every leaf of the tree
\* that had an active observer before the call and is still in the tree has
\* its active observer afterwards
C36_RemoveReleasesOnlyItemObservers ==
    [][(last'.op \in {"addArrayItem", "removeArrayItem"} /\ ~last'.threw)
       => \A n \in LiveLeaves \cap Live' : n \in act => n \in act']_vars

RECURSIVE ShapeWithValues(_, _)
\* the key, kind and control value of a node and, in order, of everything
\* below it: the nodes of the tree, the selected branches (the values of the
\* selectors and what they materialized), the array lengths, the field values
ShapeWithValues(h, n) ==
    [key |-> h.obj[n].key, type |-> h.obj[n].type,
     value |-> IF IsLeafType(h.obj[n].type) THEN h.obj[n].value ELSE Undef,
     below |-> IF IsLeafType(h.obj[n].type) THEN <<>>
               ELSE [i \in 1..Len(h.fields[h.obj[n].body]) |->
                        ShapeWithValues(h, h.fields[h.obj[n].body][i].n)]]

\* the tree as a patch leaves it
Patched == ShapeWithValues(Heap, root)

\* C37: a patchValue with the value that the patchValue before it was given
\* leaves the tree as it was: same nodes, same selector values, same array
\* lengths, same field values
C37_PatchTwiceIdempotent ==
    [][(/\ last.op = "patchValue" /\ ~last.threw
        /\ last'.op = "patchValue" /\ ~last'.threw
        /\ last'.v = last.v /\ IsObjectType(last.v))
       => Patched' = Patched]_vars

\* C38: in every state, every array of the tree holds at least minItems items
\* when its schema has minItems and at most maxItems items when it has maxItems
C38_LengthWithinBounds ==
    \A a \in LiveArrays :
        /\ obj[a].minItems # -1 => Len(fields[obj[a].body]) >= obj[a].minItems
        /\ obj[a].maxItems # -1 => Len(fields[obj[a].body]) <= obj[a].maxItems

\* C39: in every state, the schema documents are as they were written: every
\* sub-schema has the keywords it had, and every `required` array of a schema
\* holds the names it held
C39_SchemaDocumentUnchanged ==
    /\ schemas = Schemas
    /\ \A i \in 1..Len(ReqInit) : req[i] = ReqInit[i]

\* the then and else schemas of the `if`s that compiling branch schema into a
\* group evaluates: its own and those of the allOf sub-schemas below it
NestedBranches(schema) ==
    UNION {{schemas[site.s].then, schemas[site.s].else} :
              site \in {t \in IfSites(schema, "") : schemas[t.s].hasIf}} \ {""}

\* C40: when a step reverts a descriptor, no node that stays in the tree
\* carries afterwards a descriptor that the materialization of the reverted
\* descriptor attached: a descriptor for a then or else schema of an `if` of
\* the reverted branch
C40_RevertDetachesNestedDescriptors ==
    [][~last'.threw
       => \A n \in LiveLeaves \cap LiveLeaves' :
              \A i \in 1..Len(cs[obj[n].cs]) :
                  LET d == cs[obj[n].cs][i]
                      after == cs'[obj[n].cs]
                  IN (/\ d.added # <<>>
                      /\ \E k \in 1..Len(after) :
                             after[k].schema = d.schema /\ after[k].added = <<>>)
                     => \A f \in Live \cap Live' :
                            \A j \in 1..Len(cs'[obj[f].cs]) :
                                cs'[obj[f].cs][j].schema \notin NestedBranches(d.schema)]_vars

====
